---- MODULE Spec2Model ----
(***************************************************************************)
(* Engagement tracking of the panganjawara backend: the like/share toggle  *)
(* protocol of the Post, Article and Comment models, the denormalised      *)
(* counters it maintains, and the requests that run it concurrently.       *)
(*                                                                         *)
(* Every `await this.db.execute(...)` of a model method is one step of the *)
(* request that runs it, so that requests of different clients interleave  *)
(* between statements exactly where the Node.js runtime lets them.         *)
(* Strings are sequences of character codes.                               *)
(***************************************************************************)
EXTENDS Integers, Sequences, FiniteSets, Bags, TLC

\* ------------------------------------------------------------------ bounds
\* total number of model-method calls issued in one behaviour
MaxCalls == 3
\* number of statements the store rejects in one behaviour
MaxFailures == 1
\* last tick of the clock
MaxNow == 2

\* ------------------------------------------------------- program constants
\* uniqueId.substring(0, 45)
IpMaxLen == 45
\* clientInfo.userAgent.substring(0, 255)
UaMaxLen == 255

\* ------------------------------------------------------------------ inputs
\* requests in flight: a new request takes the lowest free slot
Slots == {1, 2}

Str(c, n) == [i \in 1..n |-> c]

\* two fingerprints that agree on their first 45 characters, and a short one
FpA  == Str(1, IpMaxLen) \o <<7>>
FpA2 == Str(1, IpMaxLen) \o <<8>>
FpB  == <<2>>
Ip1 == <<3, 1>>
Ip2 == <<3, 2>>
Ip3 == <<3, 3>>
UaX == <<5>>
UaY == <<6>>
\* an address list and a user agent longer than the ledger columns
IpLong == Str(4, IpMaxLen + 1)
UaLong == Str(5, UaMaxLen + 1)
FpL == <<9>>
\* "ID", "Jakarta"
CountryID == <<73, 68>>
CityJakarta == <<74, 97, 107, 97, 114, 116, 97>>

\* the clients and the clientInfo the HTTP layer derives for each: A and A2
\* are two browser profiles behind one address, B is another machine
Clients == { "A", "A2", "B" }
\* N sends no fingerprint and has no geo data, L sends over-long headers;
\* the geo lookup found no city for B; F sends its address as fingerprint;
\* L2 sends what L sends except for the last character of its user agent
Callers == Clients \cup { "N", "L" }
ClientInfo(who) ==
  CASE who = "A"  -> [fingerprint |-> FpA,  ip |-> Ip1, userAgent |-> UaX,
                      country |-> CountryID, city |-> CityJakarta]
    [] who = "A2" -> [fingerprint |-> FpA2, ip |-> Ip1, userAgent |-> UaX,
                      country |-> CountryID, city |-> CityJakarta]
    [] who = "B"  -> [fingerprint |-> FpB,  ip |-> Ip2, userAgent |-> UaY,
                      country |-> CountryID, city |-> <<>>]
    [] who = "N"  -> [ip |-> Ip3, userAgent |-> UaX]
    [] who = "L2" -> [fingerprint |-> FpL, ip |-> IpLong,
                      userAgent |-> Str(5, UaMaxLen) \o <<6>>,
                      country |-> CountryID, city |-> CityJakarta]
    [] who = "F"  -> [fingerprint |-> Ip1, ip |-> Ip1, userAgent |-> UaX,
                      country |-> CountryID, city |-> CityJakarta]
    [] who = "L"  -> [fingerprint |-> FpL, ip |-> IpLong, userAgent |-> UaLong,
                      country |-> CountryID, city |-> CityJakarta]

\* rows of the posts, articles and comments tables
Contents == { <<"post", 1>>, <<"article", 1>>, <<"comment", 1>> }
\* ids a request may name: the rows above and an article id without a row
Targets == Contents \cup { <<"article", 2>> }

\* the calls a client may issue
ToggleOps == { "toggleLike", "toggleShare" }
IncrementOps == { "incrementShareCount", "incrementViewCount" }
HasOps == { "hasUserLiked", "hasUserShared" }

\* the methods each model has: Comment has toggleLike only
HasMethod(c, op) ==
  c[1] \in {"post", "article"} \/ op \in {"toggleLike", "hasUserLiked"}

\* A2 sends what A sends except for the fingerprint, which only the Article
\* model reads: its requests are listed for the article row only
Requests ==
  { r \in [op : ToggleOps, c : Targets, who : Clients] :
      HasMethod(r.c, r.op) /\ (r.who = "A2" => r.c = <<"article", 1>>) }
  \cup { r \in [op : IncrementOps, c : Targets] : HasMethod(r.c, r.op) }

\* ------------------------------------------------- statistics inputs
\* character codes: '_' and the texts the callers pass
Underscore == 95
Chars(t) ==
  CASE t = "article" -> <<97, 114, 116, 105, 99, 108, 101>>
    [] t = "post"    -> <<112, 111, 115, 116>>
    [] t = "comment" -> <<99, 111, 109, 109, 101, 110, 116>>
    [] t = "view"    -> <<118, 105, 101, 119>>
    [] t = "like"    -> <<108, 105, 107, 101>>
    [] t = "add"     -> <<97, 100, 100>>

\* "view", "article_view", "post_like_add", "_view"
ActView == Chars("view")
ActArticleView == Chars("article") \o <<Underscore>> \o Chars("view")
ActPostLikeAdd ==
  Chars("post") \o <<Underscore>> \o Chars("like") \o <<Underscore>> \o Chars("add")
ActUnderscoreView == <<Underscore>> \o Chars("view")

\* JS undefined and null / SQL NULL
Undefined == << -2 >>
Null == << -1 >>

\* INTERVAL '1 day' in ticks of the clock
DayTicks == 1

\* the statistics calls a caller may issue
RecordRequests ==
  [ op : {"record"}, entityType : {Chars("article")}, entityId : {1, 2},
    action : {ActView}, who : {"A"} ]
LogActionRequests ==
  { [op |-> "logAction", action |-> ActArticleView, entityId |-> 1, who |-> "B"],
    [op |-> "logAction", action |-> ActView, entityId |-> 1, who |-> "N"],
    [op |-> "logAction", action |-> ActPostLikeAdd, entityId |-> 1, who |-> "A"],
    [op |-> "logAction", action |-> ActUnderscoreView, entityId |-> 1, who |-> "A"] }
GetByEntityRequests ==
  [ op : {"getByEntity"}, entityType : {Chars("article")}, entityId : {1},
    action : {Null, ActView} ]
GetCountRequests ==
  [ op : {"getCount"}, entityType : {Chars("article")}, entityId : {1},
    action : {ActView} ]
GetTopContentRequests ==
  [ op : {"getTopContent"}, entityType : {Chars("article")}, action : {ActView},
    limit : {1, 2}, days : {0, 1} ]
CleanOldStatsRequests == [ op : {"cleanOldStats"}, daysToKeep : {0, 1} ]
DeleteRequests == [ op : {"delete"}, c : Contents ]

StatisticsOps ==
  { "record", "logAction", "getByEntity", "getCount", "getTopContent",
    "cleanOldStats" }
StatisticsRequests ==
  RecordRequests \cup LogActionRequests \cup GetByEntityRequests
    \cup GetCountRequests \cup GetTopContentRequests \cup CleanOldStatsRequests

\* toggles and membership checks of every caller
WideToggles ==
  { r \in [op : ToggleOps, c : Contents, who : Callers] :
      HasMethod(r.c, r.op) /\ (r.who = "A2" => r.c = <<"article", 1>>) }
HasRequests ==
  { r \in [op : HasOps, c : Contents, who : Callers] :
      HasMethod(r.c, r.op) /\ (r.who = "A2" => r.c = <<"article", 1>>) }

\* errors the store may raise from db.execute
StoreErrors == { "ECONNRESET" }

NoRow == -1
NoRet == [kind |-> "none"]
NoCall == [op |-> "none"]
NoSnap == [cnt |-> NoRow, rows |-> 0, own |-> 0, insync |-> TRUE, seq |-> 0,
           stats |-> {}]

VARIABLES
  likes,         \* the likes table: a bag of rows
  shares,        \* the shares table: a bag of rows
  like_count,    \* like_count column, per content row
  shared_count,  \* shared_count column, per content row
  view_count,    \* view_count column, per content row
  pc,            \* per request slot: where its current call stands
  call,          \* per request slot: the method called and its arguments
  ret,           \* per request slot: what the call returned or threw
  stmts,         \* per request slot: the statements the call has sent to the store
  snap,          \* per request slot: what the store held when the call started
  clean,         \* per request slot: no other client's call overlapped this one
  last,          \* the call completed just before, if nothing overlapped it
  statistics,    \* the statistics table: a set of rows
  statistics_id_seq, \* the serial that generates statistics.id
  now,           \* what NOW() returned when a statement last read it, in ticks
  calls,         \* number of calls started
  failures,      \* number of statements the store has rejected
  inputs,        \* the requests the clients of this behaviour issue
  dbPool,        \* api/index.js: the pool initDatabase returned, 0 for null
  isInitialized, \* api/index.js: the flag set after the last table step
  initPromise,   \* api/index.js: the promise of the attempt in flight, 0 for null
  promises,      \* the promises ensureDbInitialized has created, by number
  position,      \* per attempt: the await its body stands at
  requests,      \* per request slot: where its lazyDb call stands
  sent,          \* the statements lazyDb has handed to a pool
  files,         \* saveImageRecords: the files argument
  save,          \* saveImageRecords: the frame of the call
  images,        \* the images table: a set of rows
  images_id_seq, \* the serial that generates images.id
  bucket,        \* the objects in the storage bucket
  outcomes       \* per file handled so far: what became of it

vars == << likes, shares, like_count, shared_count, view_count,
           statistics, statistics_id_seq, now,
           pc, call, ret, stmts, snap, clean, last, calls, failures, inputs,
           dbPool, isInitialized, initPromise, promises, position, requests,
           sent, files, save, images, images_id_seq, bucket, outcomes >>

store == << likes, shares, like_count, shared_count, view_count >>

\* the statistics log and the clock its rows are stamped with
log == << statistics, statistics_id_seq, now >>

\* the lazy database initialisation of the serverless entry point
boot == << dbPool, isInitialized, initPromise, promises, position, requests, sent >>

\* the image upload helper and the tables it writes
uploads == << files, save, images, images_id_seq, bucket, outcomes >>

\* ------------------------------------------------ database initialisation
\* the createXTable calls ensureDbInitialized awaits one after the other
TableSteps == 10
\* number of initialisation attempts in one behaviour
MaxAttempts == 2

PromisePending == [state |-> "pending"]
Fulfilled(v) == [state |-> "fulfilled", value |-> v]
Rejected == [state |-> "rejected"]

\* the methods of lazyDb that await ensureDbInitialized
LazyDbMethods == { "execute", "query", "getConnection" }

\* the body of attempt n stands at `await initDatabase()` (0), at the await
\* of table step k (k), or has run its finally block (TableSteps + 1)
Settled == TableSteps + 1

\* let dbPool = null; let isInitialized = false; let initPromise = null;
Cold ==
  /\ dbPool = 0
  /\ isInitialized = FALSE
  /\ initPromise = 0
  /\ promises = << >>
  /\ position = << >>
  /\ requests = [p \in Slots |-> [pc |-> "idle"]]
  /\ sent = {}

\* the entry point after its first request was served
Warm ==
  /\ dbPool = 1
  /\ isInitialized = TRUE
  /\ initPromise = 0
  /\ promises = << Fulfilled(1) >>
  /\ position = << Settled >>
  /\ requests = [p \in Slots |-> [pc |-> "idle"]]
  /\ sent = {}

\* no saveImageRecords call is under way and no image is stored
NoUpload ==
  /\ files = << >>
  /\ save = [pc |-> "idle"]
  /\ images = {}
  /\ images_id_seq = 0
  /\ bucket = {}
  /\ outcomes = << >>

\* ---------------------------------------------------------------- helpers
Min(a, b) == IF a < b THEN a ELSE b

\* String.prototype.substring(0, n)
Substring(s, n) == SubSeq(s, 1, Min(n, Len(s)))

\* `${clientInfo.<f>}`: a property the object lacks reads as undefined and
\* is formatted as the text "undefined"
TemplateLiteral(clientInfo, f) ==
  IF f \in DOMAIN clientInfo THEN clientInfo[f]
  ELSE <<117, 110, 100, 101, 102, 105, 110, 101, 100>>

\* variant: the Article model passes fingerprint and user agent untruncated
ArticleKey_Untruncated(id, clientInfo) ==
  [ user_ip      |-> TemplateLiteral(clientInfo, "fingerprint"),
    user_agent   |-> clientInfo.userAgent,
    content_type |-> "article",
    content_id   |-> id ]

\* the (user_ip, user_agent, content_type, content_id) parameters of the
\* ledger statements of toggleLike/toggleShare/hasUserLiked/hasUserShared
ArticleKey(id, clientInfo) ==
  LET uniqueId == TemplateLiteral(clientInfo, "fingerprint")
  IN [ user_ip      |-> Substring(uniqueId, IpMaxLen),
       user_agent   |-> Substring(clientInfo.userAgent, UaMaxLen),
       content_type |-> "article",
       content_id   |-> id ]

\* Post.toggleLike(id, userIp, userAgent) and Comment.toggleLike pass their
\* arguments to the statement as they are
PostKey(type, id, clientInfo) ==
  [ user_ip      |-> clientInfo.ip,
    user_agent   |-> clientInfo.userAgent,
    content_type |-> type,
    content_id   |-> id ]

Key(c, clientInfo) ==
  IF c[1] = "article" THEN ArticleKey(c[2], clientInfo)
                      ELSE PostKey(c[1], c[2], clientInfo)

\* SELECT id FROM <table> WHERE user_ip = ? AND user_agent = ?
\*   AND content_type = ? AND content_id = ?   (number of rows returned)
SelectRows(table, key) == CopiesIn(key, table)

\* variant: the DELETE removes one row only (LIMIT 1)
DeleteRows_One(table, key) ==
  IF CopiesIn(key, table) > 1
    THEN [table EXCEPT ![key] = @ - 1]
    ELSE [ r \in (DOMAIN table) \ {key} |-> table[r] ]

\* variant: the DELETE leaves the identity out of its WHERE clause
DeleteRows_AnyIdentity(table, key) ==
  [ r \in { k \in DOMAIN table :
              ~(k.content_type = key.content_type /\ k.content_id = key.content_id) }
    |-> table[r] ]

\* variant: the DELETE leaves the content type out of its WHERE clause
DeleteRows_AnyType(table, key) ==
  [ r \in { k \in DOMAIN table :
              ~(/\ k.user_ip = key.user_ip /\ k.user_agent = key.user_agent
                /\ k.content_id = key.content_id) }
    |-> table[r] ]

\* DELETE FROM <table> WHERE user_ip = ? AND user_agent = ?
\*   AND content_type = ? AND content_id = ?
DeleteRows(table, key) == [ r \in (DOMAIN table) \ {key} |-> table[r] ]

\* variant: the table has a unique key and the INSERT ignores duplicates
InsertRow_Unique(table, key) ==
  IF CopiesIn(key, table) > 0 THEN table ELSE table (+) SetToBag({key})

\* INSERT INTO <table> (user_ip, user_agent, content_type, content_id)
InsertRow(table, key) == table (+) SetToBag({key})

\* variant: the increment adds 2
UpdateIncrement_Twice(col, c) ==
  IF c \in DOMAIN col THEN [col EXCEPT ![c] = @ + 2] ELSE col

\* variant: the increment creates the counter of an id that has no row
UpdateIncrement_Upsert(col, c) ==
  [ d \in (DOMAIN col) \cup {c} |-> IF d \in DOMAIN col THEN col[d] + (IF d = c THEN 1 ELSE 0)
                                     ELSE 1 ]

\* UPDATE <t> SET <col> = <col> + 1 WHERE id = ?
UpdateIncrement(col, c) ==
  IF c \in DOMAIN col THEN [col EXCEPT ![c] = @ + 1] ELSE col

\* variant: the decrement is left out
UpdateDecrement_Skip(col, c) == col

\* variant: the decrement without its <col> > 0 guard
UpdateDecrement_Unguarded(col, c) ==
  IF c \in DOMAIN col THEN [col EXCEPT ![c] = @ - 1] ELSE col

\* UPDATE <t> SET <col> = <col> - 1 WHERE id = ? AND <col> > 0
UpdateDecrement(col, c) ==
  IF c \in DOMAIN col /\ col[c] > 0 THEN [col EXCEPT ![c] = @ - 1] ELSE col

\* result.affectedRows > 0 of an UPDATE ... WHERE id = ?
AffectedRows(col, c) == IF c \in DOMAIN col THEN 1 ELSE 0

\* hasUserLiked / hasUserShared: rows.length > 0 of the same SELECT
HasRow(table, c, clientInfo) == SelectRows(table, Key(c, clientInfo)) > 0
HasUserLiked(c, clientInfo) == HasRow(likes, c, clientInfo)
HasUserShared(c, clientInfo) == HasRow(shares, c, clientInfo)

\* ---------------------------------------------------- statistics helpers
\* obj.f: a property the object lacks reads as undefined
Prop(obj, f) == IF f \in DOMAIN obj THEN obj[f] ELSE Undefined

\* x || null: undefined, null and the empty string are falsy
OrNull(x) == IF x \in { Undefined, Null, <<>> } THEN Null ELSE x

\* variant: the text before the last '_'
EntityTypeOf_LastUnderscore(action) ==
  LET at == { i \in 1..Len(action) : action[i] = Underscore }
  IN IF at = {} THEN action
     ELSE SubSeq(action, 1, (CHOOSE i \in at : \A j \in at : i >= j) - 1)

\* action.split('_')[0]: the text before the first '_', all of it without one
EntityTypeOf(action) ==
  LET at == { i \in 1..Len(action) : action[i] = Underscore }
  IN IF at = {} THEN action
     ELSE SubSeq(action, 1, (CHOOSE i \in at : \A j \in at : i <= j) - 1)

\* what NOW() may return to a statement: the clock has moved on by at most
\* one tick since a statement last read it
Readings == { t \in now..MaxNow : t <= now + 1 }

\* the row INSERT INTO statistics (...) VALUES (?, ?, ?, ?, ?, ?, ?, NOW())
\* adds when NOW() is t; id comes from the serial
RecordRow(entityType, entityId, action, ipAddress, userAgent, country, city, t) ==
  [ id          |-> statistics_id_seq + 1,
    entity_type |-> entityType,
    entity_id   |-> entityId,
    action      |-> action,
    ip_address  |-> OrNull(ipAddress),
    user_agent  |-> OrNull(userAgent),
    country     |-> OrNull(country),
    city        |-> OrNull(city),
    created_at  |-> t ]

\* the orders a SELECT ... ORDER BY <K> DESC may return the rows S in: rows
\* with equal keys come in any order
RECURSIVE OrderByDesc(_, _)
OrderByDesc(S, K) ==
  IF S = {} THEN { <<>> }
  ELSE UNION { { <<first>> \o rest : rest \in OrderByDesc(S \ {first}, K) }
               : first \in { x \in S : \A y \in S : K[x] >= K[y] } }

CreatedAt == [ row \in statistics |-> row.created_at ]
TotalCount(groups) == [ g \in groups |-> g.total_count ]

\* WHERE entity_type = ? AND entity_id = ? [AND action = ?]
ByEntity(entityType, entityId, action) ==
  { row \in statistics :
      /\ row.entity_type = entityType
      /\ row.entity_id = entityId
      /\ (action # Null => row.action = action) }

\* variant: rows exactly daysToKeep days old are swept too
OlderThan_Inclusive(daysToKeep, t) ==
  { row \in statistics : row.created_at <= t - daysToKeep * DayTicks }

\* WHERE created_at < NOW() - (? * INTERVAL '1 day'), NOW() being t
OlderThan(daysToKeep, t) ==
  { row \in statistics : row.created_at < t - daysToKeep * DayTicks }

\* variant: the groups without the created_at condition
TopGroups_NoWindow(entityType, action, days, t) ==
  LET m == { row \in statistics :
               row.entity_type = entityType /\ row.action = action }
  IN { [ entity_id    |-> e,
         total_count  |-> Cardinality({ row \in m : row.entity_id = e }),
         unique_count |-> Cardinality({ row.ip_address :
                            row \in { x \in m : x.entity_id = e
                                                 /\ x.ip_address # Null } }) ]
       : e \in { row.entity_id : row \in m } }

\* the groups of getTopContent: WHERE entity_type = ? AND action = ? AND
\* created_at >= NOW() - (? * INTERVAL '1 day') GROUP BY entity_id, NOW()
\* being t
TopGroups(entityType, action, days, t) ==
  LET m == { row \in statistics :
               /\ row.entity_type = entityType
               /\ row.action = action
               /\ row.created_at >= t - days * DayTicks }
  IN { [ entity_id    |-> e,
         total_count  |-> Cardinality({ row \in m : row.entity_id = e }),
         unique_count |-> Cardinality({ row.ip_address :
                            row \in { x \in m : x.entity_id = e
                                                 /\ x.ip_address # Null } }) ]
       : e \in { row.entity_id : row \in m } }

\* ------------------------------------------------------- observations
TableOf(op) == IF op \in {"toggleLike", "hasUserLiked"} THEN likes ELSE shares
ColumnOf(op) ==
  CASE op \in {"toggleLike", "hasUserLiked"} -> like_count
    [] op = "incrementViewCount" -> view_count
    [] OTHER -> shared_count

\* number of rows a ledger table holds for a content item
RowsFor(table, c) ==
  BagCardinality([ r \in { k \in DOMAIN table :
                             k.content_type = c[1] /\ k.content_id = c[2] }
                   |-> table[r] ])

\* every counter equals the number of ledger rows of its content item
InSync ==
  /\ \A c \in DOMAIN like_count : like_count[c] = RowsFor(likes, c)
  /\ \A c \in DOMAIN shared_count : shared_count[c] = RowsFor(shares, c)

\* what a call can see of the store: its counter, the ledger rows of its
\* content item, and the rows of its own identity among them; seq numbers
\* the calls in the order they start
Observe(r) ==
  [ cnt     |-> IF "c" \in DOMAIN r /\ r.c \in DOMAIN ColumnOf(r.op)
                  THEN ColumnOf(r.op)[r.c] ELSE NoRow,
    rows    |-> IF "c" \in DOMAIN r THEN RowsFor(TableOf(r.op), r.c) ELSE 0,
    own     |-> IF r.op \in ToggleOps \cup HasOps
                  THEN SelectRows(TableOf(r.op), Key(r.c, ClientInfo(r.who)))
                  ELSE 0,
    insync  |-> InSync,
    seq     |-> calls + 1,
    stats   |-> statistics ]

Value(v) == [kind |-> "value", value |-> v]
Thrown(e) == [kind |-> "error", error |-> e]

OthersIdle(p) == \A q \in Slots \ {p} : pc[q] = "idle"

\* a store statement of p overlaps every call that is under way
Overlap(p, starting) ==
  [ q \in Slots |->
      IF q = p THEN (IF starting THEN OthersIdle(p) ELSE clean[p])
      ELSE IF pc[q] # "idle" THEN FALSE ELSE clean[q] ]

\* ------------------------------------------------------------------- Init
\* a fresh store: no ledger rows, all counters at their column default 0
Init ==
  /\ likes = EmptyBag
  /\ shares = EmptyBag
  /\ like_count = [c \in Contents |-> 0]
  /\ shared_count = [c \in { c \in Contents : c[1] # "comment" } |-> 0]
  /\ view_count = [c \in { c \in Contents : c[1] # "comment" } |-> 0]
  /\ statistics = {}
  /\ statistics_id_seq = 0
  /\ now = 0
  /\ pc = [p \in Slots |-> "idle"]
  /\ call = [p \in Slots |-> NoCall]
  /\ ret = [p \in Slots |-> NoRet]
  /\ stmts = [p \in Slots |-> <<>>]
  /\ snap = [p \in Slots |-> NoSnap]
  /\ clean = [p \in Slots |-> TRUE]
  /\ last = NoCall
  /\ calls = 0
  /\ failures = 0
  /\ Warm /\ NoUpload
  \* the clients of one behaviour issue up to two kinds of request, both
  \* addressed to the same content row
  /\ \E a \in Requests, b \in Requests : a.c = b.c /\ inputs = {a, b}

\* bookkeeping of the step that starts call r of client p
Start(p, r) ==
  /\ pc[p] = "idle"
  /\ \A q \in Slots : q < p => pc[q] # "idle"
  /\ calls < MaxCalls
  /\ r \in inputs
  /\ call' = [call EXCEPT ![p] = r]
  /\ snap' = [snap EXCEPT ![p] = Observe(r)]
  /\ clean' = Overlap(p, TRUE)
  /\ calls' = calls + 1
  /\ UNCHANGED << last, inputs, boot, uploads >>

\* bookkeeping of a later statement of the call of client p
Continue(p, stmt) ==
  /\ stmts' = [stmts EXCEPT ![p] = Append(@, stmt)]
  /\ clean' = Overlap(p, FALSE)
  /\ UNCHANGED << call, snap, last, calls, inputs, boot, uploads >>

\* ------------------------------------------------------ toggleLike/Share
\* the call and its first statement, the SELECT that decides the branch
ToggleCheck(p, r) ==
  /\ UNCHANGED log
  /\ r.op \in ToggleOps
  /\ Start(p, r)
  /\ LET existing == SelectRows(TableOf(r.op), Key(r.c, ClientInfo(r.who)))
     IN pc' = [pc EXCEPT ![p] = IF existing > 0 THEN "delete" ELSE "insert"]
  /\ stmts' = [stmts EXCEPT ![p] = <<"SELECT">>]
  /\ UNCHANGED << store, ret >>
  /\ UNCHANGED failures

\* variant: the DELETE removes the identity's rows from both ledger tables
ToggleDelete_BothTables(p) ==
  /\ UNCHANGED log
  /\ pc[p] = "delete"
  /\ LET key == Key(call[p].c, ClientInfo(call[p].who))
     IN likes' = DeleteRows(likes, key) /\ shares' = DeleteRows(shares, key)
  /\ pc' = [pc EXCEPT ![p] = "decrement"]
  /\ Continue(p, "DELETE")
  /\ UNCHANGED << like_count, shared_count, view_count, ret >>
  /\ UNCHANGED failures

\* if (existing.length > 0): DELETE the identity's rows
ToggleDelete(p) ==
  /\ UNCHANGED log
  /\ pc[p] = "delete"
  /\ LET key == Key(call[p].c, ClientInfo(call[p].who))
     IN IF call[p].op = "toggleLike"
          THEN likes' = DeleteRows(likes, key) /\ UNCHANGED shares
          ELSE shares' = DeleteRows(shares, key) /\ UNCHANGED likes
  /\ pc' = [pc EXCEPT ![p] = "decrement"]
  /\ Continue(p, "DELETE")
  /\ UNCHANGED << like_count, shared_count, view_count, ret >>
  /\ UNCHANGED failures

\* variant: a decrement that matches no row is reported as an error
ToggleDecrement_Strict(p) ==
  /\ UNCHANGED log
  /\ pc[p] = "decrement"
  /\ LET col == ColumnOf(call[p].op)
         hit == call[p].c \in DOMAIN col /\ col[call[p].c] > 0
     IN /\ IF call[p].op = "toggleLike"
              THEN like_count' = UpdateDecrement(like_count, call[p].c) /\ UNCHANGED shared_count
              ELSE shared_count' = UpdateDecrement(shared_count, call[p].c) /\ UNCHANGED like_count
        /\ ret' = [ret EXCEPT ![p] =
                     IF hit THEN Value(IF call[p].op = "toggleLike"
                                         THEN [liked |-> FALSE, action |-> "unliked"]
                                         ELSE [shared |-> FALSE, action |-> "unshared"])
                            ELSE Thrown("NO_ROWS_AFFECTED")]
        /\ pc' = [pc EXCEPT ![p] = IF hit THEN "returned" ELSE "failed"]
  /\ Continue(p, "UPDATE")
  /\ UNCHANGED << likes, shares, view_count >>
  /\ UNCHANGED failures

\* variant: the counter is recomputed from the ledger rows that remain
ToggleDecrement_Recount(p) ==
  /\ UNCHANGED log
  /\ pc[p] = "decrement"
  /\ IF call[p].op = "toggleLike"
       THEN /\ like_count' = [ c \in DOMAIN like_count |->
                                 IF c = call[p].c THEN RowsFor(likes, c)
                                                  ELSE like_count[c] ]
            /\ ret' = [ret EXCEPT ![p] = Value([liked |-> FALSE, action |-> "unliked"])]
            /\ UNCHANGED shared_count
       ELSE /\ shared_count' = [ c \in DOMAIN shared_count |->
                                   IF c = call[p].c THEN RowsFor(shares, c)
                                                    ELSE shared_count[c] ]
            /\ ret' = [ret EXCEPT ![p] = Value([shared |-> FALSE, action |-> "unshared"])]
            /\ UNCHANGED like_count
  /\ pc' = [pc EXCEPT ![p] = "returned"]
  /\ Continue(p, "UPDATE")
  /\ UNCHANGED << likes, shares, view_count >>
  /\ UNCHANGED failures

\* then the guarded decrement, and return { liked: false, action: 'unliked' }
ToggleDecrement(p) ==
  /\ UNCHANGED log
  /\ pc[p] = "decrement"
  /\ IF call[p].op = "toggleLike"
       THEN /\ like_count' = UpdateDecrement(like_count, call[p].c)
            /\ ret' = [ret EXCEPT ![p] = Value([liked |-> FALSE, action |-> "unliked"])]
            /\ UNCHANGED shared_count
       ELSE /\ shared_count' = UpdateDecrement(shared_count, call[p].c)
            /\ ret' = [ret EXCEPT ![p] = Value([shared |-> FALSE, action |-> "unshared"])]
            /\ UNCHANGED like_count
  /\ pc' = [pc EXCEPT ![p] = "returned"]
  /\ Continue(p, "UPDATE")
  /\ UNCHANGED << likes, shares, view_count >>
  /\ UNCHANGED failures

\* else: INSERT a row for the identity
ToggleInsert(p) ==
  /\ UNCHANGED log
  /\ pc[p] = "insert"
  /\ LET key == Key(call[p].c, ClientInfo(call[p].who))
     IN IF call[p].op = "toggleLike"
          THEN likes' = InsertRow(likes, key) /\ UNCHANGED shares
          ELSE shares' = InsertRow(shares, key) /\ UNCHANGED likes
  /\ pc' = [pc EXCEPT ![p] = "increment"]
  /\ Continue(p, "INSERT")
  /\ UNCHANGED << like_count, shared_count, view_count, ret >>
  /\ UNCHANGED failures

\* then the increment, and return { liked: true, action: 'liked' }
ToggleIncrement(p) ==
  /\ UNCHANGED log
  /\ pc[p] = "increment"
  /\ IF call[p].op = "toggleLike"
       THEN /\ like_count' = UpdateIncrement(like_count, call[p].c)
            /\ ret' = [ret EXCEPT ![p] = Value([liked |-> TRUE, action |-> "liked"])]
            /\ UNCHANGED shared_count
       ELSE /\ shared_count' = UpdateIncrement(shared_count, call[p].c)
            /\ ret' = [ret EXCEPT ![p] = Value([shared |-> TRUE, action |-> "shared"])]
            /\ UNCHANGED like_count
  /\ pc' = [pc EXCEPT ![p] = "returned"]
  /\ Continue(p, "UPDATE")
  /\ UNCHANGED << likes, shares, view_count >>
  /\ UNCHANGED failures

\* ------------------------------------------------- raw counter increments
\* variant: the raw increment also records a share row
IncrementShareCount_Tracked(p, r) ==
  /\ UNCHANGED log
  /\ r.op = "incrementShareCount"
  /\ Start(p, r)
  /\ shared_count' = UpdateIncrement(shared_count, r.c)
  /\ shares' = InsertRow(shares, [ user_ip |-> <<>>, user_agent |-> <<>>,
                                    content_type |-> r.c[1], content_id |-> r.c[2] ])
  /\ ret' = [ret EXCEPT ![p] = Value(AffectedRows(shared_count, r.c) > 0)]
  /\ pc' = [pc EXCEPT ![p] = "returned"]
  /\ stmts' = [stmts EXCEPT ![p] = <<"UPDATE">>]
  /\ UNCHANGED << likes, like_count, view_count, failures >>

IncrementShareCount(p, r) ==
  /\ UNCHANGED log
  /\ r.op = "incrementShareCount"
  /\ Start(p, r)
  /\ shared_count' = UpdateIncrement(shared_count, r.c)
  /\ ret' = [ret EXCEPT ![p] = Value(AffectedRows(shared_count, r.c) > 0)]
  /\ pc' = [pc EXCEPT ![p] = "returned"]
  /\ stmts' = [stmts EXCEPT ![p] = <<"UPDATE">>]
  /\ UNCHANGED << likes, shares, like_count, view_count >>
  /\ UNCHANGED failures

\* variant: a content item's view is counted only the first time
IncrementViewCount_Once(p, r) ==
  /\ UNCHANGED log
  /\ r.op = "incrementViewCount"
  /\ Start(p, r)
  /\ view_count' = IF r.c \in DOMAIN view_count /\ view_count[r.c] = 0
                      THEN UpdateIncrement(view_count, r.c)
                      ELSE view_count
  /\ ret' = [ret EXCEPT ![p] = Value(view_count' # view_count)]
  /\ pc' = [pc EXCEPT ![p] = "returned"]
  /\ stmts' = [stmts EXCEPT ![p] = <<"UPDATE">>]
  /\ UNCHANGED << likes, shares, like_count, shared_count >>
  /\ UNCHANGED failures

\* incrementViewCount(id): UPDATE <t> SET view_count = view_count + 1
\* WHERE id = ?; returns affectedRows > 0
IncrementViewCount(p, r) ==
  /\ UNCHANGED log
  /\ r.op = "incrementViewCount"
  /\ Start(p, r)
  /\ view_count' = UpdateIncrement(view_count, r.c)
  /\ ret' = [ret EXCEPT ![p] = Value(AffectedRows(view_count, r.c) > 0)]
  /\ pc' = [pc EXCEPT ![p] = "returned"]
  /\ stmts' = [stmts EXCEPT ![p] = <<"UPDATE">>]
  /\ UNCHANGED << likes, shares, like_count, shared_count >>
  /\ UNCHANGED failures

\* ------------------------------------------------ hasUserLiked/Shared
\* variant: the membership check leaves the identity out of its WHERE clause
HasUser_AnyIdentity(p, r) ==
  /\ r.op \in HasOps
  /\ Start(p, r)
  /\ ret' = [ret EXCEPT ![p] = Value(RowsFor(TableOf(r.op), r.c) > 0)]
  /\ pc' = [pc EXCEPT ![p] = "returned"]
  /\ stmts' = [stmts EXCEPT ![p] = <<"SELECT">>]
  /\ UNCHANGED << store, log, failures >>

\* the SELECT of the toggle, and return rows.length > 0
HasUser(p, r) ==
  /\ r.op \in HasOps
  /\ Start(p, r)
  /\ ret' = [ret EXCEPT ![p] = Value(HasRow(TableOf(r.op), r.c, ClientInfo(r.who)))]
  /\ pc' = [pc EXCEPT ![p] = "returned"]
  /\ stmts' = [stmts EXCEPT ![p] = <<"SELECT">>]
  /\ UNCHANGED << store, log, failures >>

\* ------------------------------------------------------------- statistics
\* the event a statistics row records: the row without its id
Event(row) == [ f \in (DOMAIN row) \ {"id"} |-> row[f] ]

\* variant: an event that is in the log already is not recorded again
RecordInsert_Dedup(p, row) ==
  /\ LET same == { old \in statistics : Event(old) = Event(row) }
     IN IF same = {}
          THEN /\ statistics' = statistics \cup { row }
               /\ statistics_id_seq' = row.id
               /\ ret' = [ret EXCEPT ![p] = Value(row.id)]
          ELSE /\ UNCHANGED << statistics, statistics_id_seq >>
               /\ ret' = [ret EXCEPT ![p] = Value((CHOOSE old \in same : TRUE).id)]
  /\ now' = row.created_at
  /\ pc' = [pc EXCEPT ![p] = "returned"]
  /\ stmts' = [stmts EXCEPT ![p] = <<"INSERT">>]
  /\ UNCHANGED << store, failures >>

\* variant: recording an event also bumps the view counter of its entity
RecordInsert_CountsView(p, row) ==
  /\ statistics' = statistics \cup { row }
  /\ statistics_id_seq' = row.id
  /\ now' = row.created_at
  /\ ret' = [ret EXCEPT ![p] = Value(row.id)]
  /\ pc' = [pc EXCEPT ![p] = "returned"]
  /\ stmts' = [stmts EXCEPT ![p] = <<"INSERT">>]
  /\ view_count' = [ c \in DOMAIN view_count |->
                       IF Chars(c[1]) = row.entity_type /\ c[2] = row.entity_id
                         THEN view_count[c] + 1 ELSE view_count[c] ]
  /\ UNCHANGED << likes, shares, like_count, shared_count, failures >>

\* the INSERT ... RETURNING id of record, and return rows?.[0]?.id
RecordInsert(p, row) ==
  /\ statistics' = statistics \cup { row }
  /\ statistics_id_seq' = row.id
  /\ now' = row.created_at
  /\ ret' = [ret EXCEPT ![p] = Value(row.id)]
  /\ pc' = [pc EXCEPT ![p] = "returned"]
  /\ stmts' = [stmts EXCEPT ![p] = <<"INSERT">>]
  /\ UNCHANGED << store, failures >>

Record(p, r) ==
  /\ r.op = "record"
  /\ Start(p, r)
  /\ LET clientInfo == ClientInfo(r.who)
     IN \E t \in Readings :
          RecordInsert(p, RecordRow(r.entityType, r.entityId, r.action,
                                    Prop(clientInfo, "ip"), Prop(clientInfo, "userAgent"),
                                    Prop(clientInfo, "country"), Prop(clientInfo, "city"), t))

LogAction(p, r) ==
  /\ r.op = "logAction"
  /\ Start(p, r)
  /\ LET clientInfo == ClientInfo(r.who)
         entityType == EntityTypeOf(r.action)
     IN \E t \in Readings :
          RecordInsert(p, RecordRow(entityType, r.entityId, r.action,
                                    Prop(clientInfo, "ip"), Prop(clientInfo, "userAgent"),
                                    Prop(clientInfo, "country"), Prop(clientInfo, "city"), t))

\* SELECT * ... ORDER BY created_at DESC
GetByEntity(p, r) ==
  /\ r.op = "getByEntity"
  /\ Start(p, r)
  /\ \E rows \in OrderByDesc(ByEntity(r.entityType, r.entityId, r.action), CreatedAt) :
       ret' = [ret EXCEPT ![p] = Value(rows)]
  /\ pc' = [pc EXCEPT ![p] = "returned"]
  /\ stmts' = [stmts EXCEPT ![p] = <<"SELECT">>]
  /\ UNCHANGED << store, log, failures >>

\* SELECT COUNT(*) as count
GetCount(p, r) ==
  /\ r.op = "getCount"
  /\ Start(p, r)
  /\ ret' = [ret EXCEPT ![p] =
               Value(Cardinality(ByEntity(r.entityType, r.entityId, r.action)))]
  /\ pc' = [pc EXCEPT ![p] = "returned"]
  /\ stmts' = [stmts EXCEPT ![p] = <<"SELECT">>]
  /\ UNCHANGED << store, log, failures >>

\* ... GROUP BY entity_id ORDER BY total_count DESC LIMIT ?
GetTopContent(p, r) ==
  /\ r.op = "getTopContent"
  /\ Start(p, r)
  /\ \E t \in Readings :
       /\ now' = t
       /\ LET groups == TopGroups(r.entityType, r.action, r.days, t)
          IN \E rows \in OrderByDesc(groups, TotalCount(groups)) :
               ret' = [ret EXCEPT ![p] = Value(SubSeq(rows, 1, Min(r.limit, Len(rows))))]
  /\ pc' = [pc EXCEPT ![p] = "returned"]
  /\ stmts' = [stmts EXCEPT ![p] = <<"SELECT">>]
  /\ UNCHANGED << store, statistics, statistics_id_seq, failures >>

\* DELETE FROM statistics WHERE created_at < ... RETURNING id, and return
\* rows.length
CleanOldStats(p, r) ==
  /\ r.op = "cleanOldStats"
  /\ Start(p, r)
  /\ \E t \in Readings :
       /\ now' = t
       /\ statistics' = statistics \ OlderThan(r.daysToKeep, t)
       /\ ret' = [ret EXCEPT ![p] = Value(Cardinality(OlderThan(r.daysToKeep, t)))]
  /\ pc' = [pc EXCEPT ![p] = "returned"]
  /\ stmts' = [stmts EXCEPT ![p] = <<"DELETE">>]
  /\ UNCHANGED << store, statistics_id_seq, failures >>

\* --------------------------------------------------------- content delete
\* comments.post_id
post_id == [ c \in { <<"comment", 1>> } |-> 1 ]

\* a column after DELETE FROM <t> WHERE ...: the rows in gone are removed
Without(col, gone) == [ c \in (DOMAIN col) \ gone |-> col[c] ]

\* delete(id): DELETE FROM images WHERE entity_type = ? AND entity_id = ?
\* (image records are not part of this model)
Delete(p, r) ==
  /\ r.op = "delete"
  /\ Start(p, r)
  /\ pc' = [pc EXCEPT ![p] = "del_statistics"]
  /\ stmts' = [stmts EXCEPT ![p] = <<"DELETE">>]
  /\ UNCHANGED << store, log, ret, failures >>

\* variant: the DELETE leaves entity_id out of its WHERE clause
DeleteStatistics_AnyEntity(p) ==
  /\ pc[p] = "del_statistics"
  /\ statistics' = { row \in statistics : row.entity_type # Chars(call[p].c[1]) }
  /\ pc' = [pc EXCEPT ![p] = IF call[p].c[1] = "post" THEN "del_comments"
                                                      ELSE "del_content"]
  /\ Continue(p, "DELETE")
  /\ UNCHANGED << store, statistics_id_seq, now, ret, failures >>

\* DELETE FROM statistics WHERE entity_type = ? AND entity_id = ?
DeleteStatistics(p) ==
  /\ pc[p] = "del_statistics"
  /\ statistics' = { row \in statistics :
                       ~(row.entity_type = Chars(call[p].c[1])
                           /\ row.entity_id = call[p].c[2]) }
  /\ pc' = [pc EXCEPT ![p] = IF call[p].c[1] = "post" THEN "del_comments"
                                                      ELSE "del_content"]
  /\ Continue(p, "DELETE")
  /\ UNCHANGED << store, statistics_id_seq, now, ret, failures >>

\* Post.delete only: DELETE FROM comments WHERE post_id = ?
DeleteComments(p) ==
  /\ pc[p] = "del_comments"
  /\ like_count' = Without(like_count,
                           { c \in DOMAIN post_id : post_id[c] = call[p].c[2] })
  /\ pc' = [pc EXCEPT ![p] = "del_content"]
  /\ Continue(p, "DELETE")
  /\ UNCHANGED << likes, shares, shared_count, view_count, log, ret, failures >>

\* DELETE FROM <t> WHERE id = ?, and return result.affectedRows > 0
DeleteContent(p) ==
  /\ pc[p] = "del_content"
  /\ like_count' = Without(like_count, { call[p].c })
  /\ shared_count' = Without(shared_count, { call[p].c })
  /\ view_count' = Without(view_count, { call[p].c })
  /\ ret' = [ret EXCEPT ![p] = Value(AffectedRows(like_count, call[p].c) > 0)]
  /\ pc' = [pc EXCEPT ![p] = "returned"]
  /\ Continue(p, "DELETE")
  /\ UNCHANGED << likes, shares, log, failures >>

\* ---------------------------------------------------------- store errors
\* the statement a toggle is about to send
Pending(p) ==
  CASE pc[p] \in {"delete", "del_statistics", "del_comments", "del_content"} -> "DELETE"
    [] pc[p] = "insert" -> "INSERT"
    [] OTHER -> "UPDATE"

\* the first statement of a call
FirstStatement(op) ==
  CASE op \in IncrementOps -> "UPDATE"
    [] op \in {"record", "logAction"} -> "INSERT"
    [] op \in {"cleanOldStats", "delete"} -> "DELETE"
    [] OTHER -> "SELECT"

\* where a call stands between two of its statements
Awaiting ==
  { "delete", "decrement", "insert", "increment",
    "del_statistics", "del_comments", "del_content" }

\* db.execute rejects the first statement of a call
CallFail(p, r, e) ==
  /\ UNCHANGED log
  /\ failures < MaxFailures
  /\ failures' = failures + 1
  /\ Start(p, r)
  /\ pc' = [pc EXCEPT ![p] = "failed"]
  /\ ret' = [ret EXCEPT ![p] = Thrown(e)]
  /\ stmts' = [stmts EXCEPT ![p] = << FirstStatement(r.op) >>]
  /\ UNCHANGED store

\* variant: a failed counter UPDATE is compensated by undoing the INSERT
StoreFail_Compensate(p, e) ==
  /\ UNCHANGED log
  /\ pc[p] \in Awaiting
  /\ failures < MaxFailures
  /\ failures' = failures + 1
  /\ pc' = [pc EXCEPT ![p] = "failed"]
  /\ ret' = [ret EXCEPT ![p] = Thrown(e)]
  /\ Continue(p, Pending(p))
  /\ LET key == Key(call[p].c, ClientInfo(call[p].who))
     IN IF pc[p] = "increment"
          THEN IF call[p].op = "toggleLike"
                 THEN likes' = DeleteRows(likes, key) /\ UNCHANGED shares
                 ELSE shares' = DeleteRows(shares, key) /\ UNCHANGED likes
          ELSE UNCHANGED << likes, shares >>
  /\ UNCHANGED << like_count, shared_count, view_count >>

\* db.execute rejects a later statement of a toggle: the methods have no
\* try/catch, so the await throws out of the method and nothing after it runs
StoreFail(p, e) ==
  /\ UNCHANGED log
  /\ pc[p] \in Awaiting
  /\ failures < MaxFailures
  /\ failures' = failures + 1
  /\ pc' = [pc EXCEPT ![p] = "failed"]
  /\ ret' = [ret EXCEPT ![p] = Thrown(e)]
  /\ Continue(p, Pending(p))
  /\ UNCHANGED store

\* the caller receives the result
Finish(p) ==
  /\ UNCHANGED log
  /\ pc[p] \in {"returned", "failed"}
  /\ pc' = [pc EXCEPT ![p] = "idle"]
  /\ last' = IF clean[p]
               THEN [ op |-> "done", call |-> call[p], ret |-> ret[p], before |-> snap[p] ]
               ELSE NoCall
  /\ call' = [call EXCEPT ![p] = NoCall]
  /\ ret' = [ret EXCEPT ![p] = NoRet]
  /\ stmts' = [stmts EXCEPT ![p] = <<>>]
  /\ snap' = [snap EXCEPT ![p] = NoSnap]
  /\ clean' = [clean EXCEPT ![p] = TRUE]
  /\ UNCHANGED << store, calls, failures, inputs, boot, uploads >>

Next ==
  \/ \E p \in Slots, r \in inputs : ToggleCheck(p, r)
  \/ \E p \in Slots : ToggleDelete(p)
  \/ \E p \in Slots : ToggleDecrement(p)
  \/ \E p \in Slots : ToggleInsert(p)
  \/ \E p \in Slots : ToggleIncrement(p)
  \/ \E p \in Slots, r \in inputs : IncrementShareCount(p, r)
  \/ \E p \in Slots, r \in inputs : IncrementViewCount(p, r)
  \/ \E p \in Slots, r \in inputs, e \in StoreErrors : CallFail(p, r, e)
  \/ \E p \in Slots, e \in StoreErrors : StoreFail(p, e)
  \/ \E p \in Slots : Finish(p)

Spec == Init /\ [][Next]_vars

\* ------------------------------------------- the models in one service
\* statistics rows logged before the behaviour starts: a view of article 1,
\* an event of article 2 under another action, a view of a post
SeedRow ==
  [ id |-> 1, entity_type |-> Chars("article"), entity_id |-> 1,
    action |-> ActView, ip_address |-> Ip1, user_agent |-> UaX,
    country |-> CountryID, city |-> CityJakarta, created_at |-> 0 ]
SeedRows ==
  { SeedRow,
    [ id |-> 2, entity_type |-> Chars("article"), entity_id |-> 2,
      action |-> ActArticleView, ip_address |-> Ip2, user_agent |-> UaY,
      country |-> CountryID, city |-> Null, created_at |-> 0 ],
    [ id |-> 3, entity_type |-> Chars("post"), entity_id |-> 2,
      action |-> ActView, ip_address |-> Ip2, user_agent |-> UaY,
      country |-> CountryID, city |-> Null, created_at |-> 0 ] }

\* all statistics requests with one of the given method names
OfOps(ops) == { r \in StatisticsRequests : r.op \in ops }

\* engagement and delete calls that run next to the statistics calls
Companions ==
  { [op |-> "toggleLike", c |-> <<"article", 1>>, who |-> "A"],
    [op |-> "toggleShare", c |-> <<"article", 1>>, who |-> "A"],
    [op |-> "hasUserLiked", c |-> <<"article", 1>>, who |-> "A"],
    [op |-> "incrementShareCount", c |-> <<"article", 1>>],
    [op |-> "incrementViewCount", c |-> <<"article", 1>>],
    [op |-> "incrementViewCount", c |-> <<"article", 2>>] }
    \cup DeleteRequests

\* the caller pairs of a toggle and a membership check: the same caller, and
\* callers whose identities differ or collide
CallerPairs ==
  { <<w, w>> : w \in Callers }
    \cup { <<"A", "A2">>, <<"A", "B">>, <<"N", "A">>, <<"L", "A">> }

\* what the clients of one behaviour issue: a toggle and a membership check
\* on one content row
KeyWorkloads ==
  UNION { { {t, h} : h \in { x \in HasRequests :
                                 /\ x.c = t.c
                                 /\ (x.op = "hasUserLiked") = (t.op = "toggleLike")
                                 /\ <<t.who, x.who>> \in CallerPairs } }
          : t \in WideToggles }

\* what the clients of one behaviour issue: record calls next to the calls
\* of one statistics method or to one other call; one logAction call; a view
\* increment next to one other call
StatsWorkloads ==
  { OfOps({"record", b}) : b \in StatisticsOps \ {"logAction"} }
  \cup { {l} : l \in LogActionRequests }
  \cup { OfOps({"record"}) \cup {e} : e \in Companions }
  \cup { { [op |-> "incrementViewCount", c |-> <<"article", 1>>], e } : e \in Companions }

\* a service that has logged rows: no ledger rows, all counters at 0
Service(rows, workloads) ==
  /\ likes = EmptyBag
  /\ shares = EmptyBag
  /\ like_count = [c \in Contents |-> 0]
  /\ shared_count = [c \in { c \in Contents : c[1] # "comment" } |-> 0]
  /\ view_count = [c \in { c \in Contents : c[1] # "comment" } |-> 0]
  /\ statistics = rows
  /\ statistics_id_seq = Cardinality(rows)
  /\ now = 0
  /\ pc = [p \in Slots |-> "idle"]
  /\ call = [p \in Slots |-> NoCall]
  /\ ret = [p \in Slots |-> NoRet]
  /\ stmts = [p \in Slots |-> <<>>]
  /\ snap = [p \in Slots |-> NoSnap]
  /\ clean = [p \in Slots |-> TRUE]
  /\ last = NoCall
  /\ calls = 0
  /\ failures = 0
  /\ Warm /\ NoUpload
  /\ inputs \in workloads

\* toggles and membership checks of all callers
InitKeys == Service(SeedRows, KeyWorkloads)

NextKeys ==
  \/ \E p \in Slots, r \in inputs : ToggleCheck(p, r)
  \/ \E p \in Slots : ToggleDelete(p)
  \/ \E p \in Slots : ToggleDecrement(p)
  \/ \E p \in Slots : ToggleInsert(p)
  \/ \E p \in Slots : ToggleIncrement(p)
  \/ \E p \in Slots, r \in inputs : HasUser(p, r)
  \/ \E p \in Slots, r \in inputs, e \in StoreErrors : CallFail(p, r, e)
  \/ \E p \in Slots, e \in StoreErrors : StoreFail(p, e)
  \/ \E p \in Slots : Finish(p)

SpecKeys == InitKeys /\ [][NextKeys]_vars

\* the statistics methods next to the other models
InitStats == Service(SeedRows, StatsWorkloads)

NextStats ==
  \/ Next
  \/ \E p \in Slots, r \in inputs : HasUser(p, r)
  \/ \E p \in Slots, r \in inputs : Record(p, r)
  \/ \E p \in Slots, r \in inputs : LogAction(p, r)
  \/ \E p \in Slots, r \in inputs : GetByEntity(p, r)
  \/ \E p \in Slots, r \in inputs : GetCount(p, r)
  \/ \E p \in Slots, r \in inputs : GetTopContent(p, r)
  \/ \E p \in Slots, r \in inputs : CleanOldStats(p, r)
  \/ \E p \in Slots, r \in inputs : Delete(p, r)
  \/ \E p \in Slots : DeleteStatistics(p)
  \/ \E p \in Slots : DeleteComments(p)
  \/ \E p \in Slots : DeleteContent(p)

SpecStats == InitStats /\ [][NextStats]_vars

\* a service in which two identities have liked, and where the model has
\* the method shared, one content item, and the toggles of one kind that are
\* called on that item from then on
LikedByTwo(c) ==
  /\ likes = SetToBag({ Key(c, ClientInfo("A")), Key(c, ClientInfo("B")) })
  /\ shares = IF HasMethod(c, "toggleShare") THEN likes ELSE EmptyBag
  /\ like_count = [d \in Contents |-> IF d = c THEN 2 ELSE 0]
  /\ shared_count = [d \in { d \in Contents : d[1] # "comment" } |->
                       IF d = c THEN 2 ELSE 0]
  /\ view_count = [d \in { d \in Contents : d[1] # "comment" } |-> 0]
  /\ statistics = {}
  /\ statistics_id_seq = 0
  /\ now = 0
  /\ pc = [p \in Slots |-> "idle"]
  /\ call = [p \in Slots |-> NoCall]
  /\ ret = [p \in Slots |-> NoRet]
  /\ stmts = [p \in Slots |-> <<>>]
  /\ snap = [p \in Slots |-> NoSnap]
  /\ clean = [p \in Slots |-> TRUE]
  /\ last = NoCall
  /\ calls = 0
  /\ failures = 0
  /\ Warm /\ NoUpload
  /\ \E callers \in { {"A"}, {"A", "B"} },
        op \in { o \in ToggleOps : HasMethod(c, o) } :
       inputs = { [op |-> op, c |-> c, who |-> w] : w \in callers }

InitRace == \E c \in Contents : LikedByTwo(c)

NextRace ==
  \/ \E p \in Slots, r \in inputs : ToggleCheck(p, r)
  \/ \E p \in Slots : ToggleDelete(p)
  \/ \E p \in Slots : ToggleDecrement(p)
  \/ \E p \in Slots : ToggleInsert(p)
  \/ \E p \in Slots : ToggleIncrement(p)
  \/ \E p \in Slots : Finish(p)

SpecRace == InitRace /\ [][NextRace]_vars

\* what the clients of one behaviour issue: one caller's toggles of one kind
\* on two content items of different type with the same id
TypeWorkloads ==
  { { [op |-> op, c |-> c, who |-> w], [op |-> op, c |-> d, who |-> w] } :
      <<op, c, d, w>> \in
        { x \in ToggleOps \X Contents \X Contents \X { "A", "F" } :
            /\ x[2] # x[3] /\ x[2][2] = x[3][2]
            /\ HasMethod(x[2], x[1]) /\ HasMethod(x[3], x[1]) } }

InitTypes == Service({}, TypeWorkloads)

SpecTypes == InitTypes /\ [][NextRace]_vars

\* ids for which the posts, articles and comments tables hold no row
MissingIds == { <<"post", 2>>, <<"article", 2>>, <<"comment", 2>> }

\* what the clients of one behaviour issue: one caller's toggles of one kind
\* and the raw increments, all on one id without a content row
MissingWorkloads ==
  { { r \in [op : {op}, c : {c}, who : {"A"}] \cup [op : IncrementOps, c : {c}] :
        HasMethod(r.c, r.op) } :
      <<op, c>> \in { x \in ToggleOps \X MissingIds : HasMethod(x[2], x[1]) } }

InitMissing == Service({}, MissingWorkloads)

NextMissing ==
  \/ NextRace
  \/ \E p \in Slots, r \in inputs : IncrementShareCount(p, r)
  \/ \E p \in Slots, r \in inputs : IncrementViewCount(p, r)

SpecMissing == InitMissing /\ [][NextMissing]_vars

\* pairs of clients that differ only beyond the 45th character of the
\* fingerprint or beyond the 255th character of the user agent
TwinPairs == { <<"A", "A2">>, <<"L", "L2">> }

\* what the clients of one behaviour issue on the article: toggles of one
\* kind by both clients of a pair and the membership check by the second
TwinWorkloads ==
  { { [op |-> t[1], c |-> <<"article", 1>>, who |-> w[1]],
      [op |-> t[1], c |-> <<"article", 1>>, who |-> w[2]],
      [op |-> t[2], c |-> <<"article", 1>>, who |-> w[2]] } :
      t \in { <<"toggleLike", "hasUserLiked">>, <<"toggleShare", "hasUserShared">> },
      w \in TwinPairs }

InitTwins == Service({}, TwinWorkloads)

NextTwins ==
  \/ NextRace
  \/ \E p \in Slots, r \in inputs : HasUser(p, r)

SpecTwins == InitTwins /\ [][NextTwins]_vars

\* what the clients of one behaviour issue: a caller's like toggle and share
\* toggle and the raw share increment, all on one content item
PartWorkloads ==
  { { [op |-> "toggleLike", c |-> c, who |-> w],
      [op |-> "toggleShare", c |-> c, who |-> w],
      [op |-> "incrementShareCount", c |-> c] } :
      c \in { d \in Contents : HasMethod(d, "toggleShare") }, w \in { "A", "B" } }

InitParts == Service({}, PartWorkloads)

NextParts ==
  \/ NextRace
  \/ \E p \in Slots, r \in inputs : IncrementShareCount(p, r)

SpecParts == InitParts /\ [][NextParts]_vars

\* ------------------------------------------- lazy database initialisation
\* what the steps of the entry point leave alone
models == << store, log, pc, call, ret, stmts, snap, clean, last, inputs >>

\* bookkeeping of the request that slot p starts with a lazyDb method
Arrive(p) ==
  /\ requests[p].pc = "idle"
  /\ \A q \in Slots : q < p => requests[q].pc # "idle"
  /\ calls < MaxCalls
  /\ calls' = calls + 1

\* the async body starts: initDatabase() is called and awaited, and the
\* promise of the body is stored in initPromise
StartAttempt(p, m) ==
  /\ Len(promises) < MaxAttempts
  /\ LET n == Len(promises) + 1
     IN /\ promises' = Append(promises, PromisePending)
        /\ position' = Append(position, 0)
        /\ initPromise' = n
        /\ requests' = [requests EXCEPT ![p] = [pc |-> "awaiting", method |-> m, on |-> n]]

\* variant: without `if (initPromise) return initPromise`
EnsureDbInitialized_NoShare(p, m) ==
  /\ Arrive(p)
  /\ IF isInitialized
       THEN /\ requests' = [requests EXCEPT ![p] = [pc |-> "resolved", method |-> m, db |-> dbPool]]
            /\ UNCHANGED << initPromise, promises, position >>
       ELSE StartAttempt(p, m)
  /\ UNCHANGED << dbPool, isInitialized, sent, failures, models, uploads >>

\* lazyDb.<m>: const db = await ensureDbInitialized(), up to that await.
\* ensureDbInitialized returns dbPool, the promise in flight, or the promise
\* of the attempt it starts
EnsureDbInitialized(p, m) ==
  /\ Arrive(p)
  /\ IF isInitialized
       THEN /\ requests' = [requests EXCEPT ![p] = [pc |-> "resolved", method |-> m, db |-> dbPool]]
            /\ UNCHANGED << initPromise, promises, position >>
       ELSE IF initPromise # 0
         THEN /\ requests' = [requests EXCEPT ![p] =
                                 [pc |-> "awaiting", method |-> m, on |-> initPromise]]
              /\ UNCHANGED << initPromise, promises, position >>
         ELSE StartAttempt(p, m)
  /\ UNCHANGED << dbPool, isInitialized, sent, failures, models, uploads >>

\* dbPool = await initDatabase() resolves; the first table step is called
InitDatabase(n) ==
  /\ n \in 1..Len(promises)
  /\ position[n] = 0
  /\ dbPool' = n
  /\ position' = [position EXCEPT ![n] = 1]
  /\ UNCHANGED << isInitialized, initPromise, promises, requests, sent >>
  /\ UNCHANGED << calls, failures, models, uploads >>

\* variant: the flag is set as soon as the pool exists
CreateTable_FlagFirst(n) ==
  /\ n \in 1..Len(promises)
  /\ position[n] \in 1..TableSteps
  /\ isInitialized' = TRUE
  /\ IF position[n] = TableSteps
       THEN /\ promises' = [promises EXCEPT ![n] = Fulfilled(dbPool)]
            /\ initPromise' = 0
       ELSE UNCHANGED << promises, initPromise >>
  /\ position' = [position EXCEPT ![n] = @ + 1]
  /\ UNCHANGED << dbPool, requests, sent >>
  /\ UNCHANGED << calls, failures, models, uploads >>

\* await create<X>Table(dbPool) resolves: the next table step is called, or
\* after the last one isInitialized = true; return dbPool; and in the
\* finally block initPromise = null
CreateTable(n) ==
  /\ n \in 1..Len(promises)
  /\ position[n] \in 1..TableSteps
  /\ IF position[n] = TableSteps
       THEN /\ isInitialized' = TRUE
            /\ promises' = [promises EXCEPT ![n] = Fulfilled(dbPool)]
            /\ initPromise' = 0
       ELSE UNCHANGED << isInitialized, promises, initPromise >>
  /\ position' = [position EXCEPT ![n] = @ + 1]
  /\ UNCHANGED << dbPool, requests, sent >>
  /\ UNCHANGED << calls, failures, models, uploads >>

\* variant: without the finally block
InitRejects_NoFinally(n) ==
  /\ n \in 1..Len(promises)
  /\ position[n] \in 0..TableSteps
  /\ failures < MaxFailures
  /\ failures' = failures + 1
  /\ promises' = [promises EXCEPT ![n] = Rejected]
  /\ position' = [position EXCEPT ![n] = Settled]
  /\ UNCHANGED << dbPool, isInitialized, initPromise, requests, sent >>
  /\ UNCHANGED << calls, models, uploads >>

\* the awaited initDatabase or table step rejects: catch logs and rethrows,
\* finally sets initPromise = null, the promise of the body is rejected
InitRejects(n) ==
  /\ n \in 1..Len(promises)
  /\ position[n] \in 0..TableSteps
  /\ failures < MaxFailures
  /\ failures' = failures + 1
  /\ promises' = [promises EXCEPT ![n] = Rejected]
  /\ initPromise' = 0
  /\ position' = [position EXCEPT ![n] = Settled]
  /\ UNCHANGED << dbPool, isInitialized, requests, sent >>
  /\ UNCHANGED << calls, models, uploads >>

\* the await of lazyDb.<m> resumes with the value of the settled promise,
\* or throws its error
Await(p) ==
  /\ requests[p].pc = "awaiting"
  /\ promises[requests[p].on].state # "pending"
  /\ requests' = [requests EXCEPT ![p] =
       IF promises[@.on].state = "fulfilled"
         THEN [pc |-> "resolved", method |-> @.method, db |-> promises[@.on].value]
         ELSE [pc |-> "thrown", method |-> @.method, on |-> @.on]]
  /\ UNCHANGED << dbPool, isInitialized, initPromise, promises, position, sent >>
  /\ UNCHANGED << calls, failures, models, uploads >>

\* initDatabase and every table step have completed for pool d
PoolReady(d) ==
  /\ d \in 1..Len(promises)
  /\ position[d] = Settled
  /\ promises[d].state = "fulfilled"

\* return db.<m>(...): the statement reaches the pool
LazyDb(p) ==
  /\ requests[p].pc = "resolved"
  /\ sent' = sent \cup { [ pool |-> requests[p].db, method |-> requests[p].method,
                            ready |-> PoolReady(requests[p].db),
                            flag |-> isInitialized ] }
  /\ requests' = [requests EXCEPT ![p] = [pc |-> "sent", method |-> @.method, db |-> @.db]]
  /\ UNCHANGED << dbPool, isInitialized, initPromise, promises, position >>
  /\ UNCHANGED << calls, failures, models, uploads >>

\* the request is answered, with the result or through the error handler
Respond(p) ==
  /\ requests[p].pc \in { "sent", "thrown" }
  /\ requests' = [requests EXCEPT ![p] = [pc |-> "idle"]]
  /\ UNCHANGED << dbPool, isInitialized, initPromise, promises, position, sent >>
  /\ UNCHANGED << calls, failures, models, uploads >>

\* a cold start: no model call is made before the pool exists
InitBoot ==
  /\ likes = EmptyBag
  /\ shares = EmptyBag
  /\ like_count = [c \in Contents |-> 0]
  /\ shared_count = [c \in { c \in Contents : c[1] # "comment" } |-> 0]
  /\ view_count = [c \in { c \in Contents : c[1] # "comment" } |-> 0]
  /\ statistics = {}
  /\ statistics_id_seq = 0
  /\ now = 0
  /\ pc = [p \in Slots |-> "idle"]
  /\ call = [p \in Slots |-> NoCall]
  /\ ret = [p \in Slots |-> NoRet]
  /\ stmts = [p \in Slots |-> <<>>]
  /\ snap = [p \in Slots |-> NoSnap]
  /\ clean = [p \in Slots |-> TRUE]
  /\ last = NoCall
  /\ calls = 0
  /\ failures = 0
  /\ inputs = {}
  /\ Cold /\ NoUpload

NextBoot ==
  \/ \E p \in Slots, m \in LazyDbMethods : EnsureDbInitialized(p, m)
  \/ \E n \in 1..MaxAttempts : InitDatabase(n)
  \/ \E n \in 1..MaxAttempts : CreateTable(n)
  \/ \E n \in 1..MaxAttempts : InitRejects(n)
  \/ \E p \in Slots : Await(p)
  \/ \E p \in Slots : LazyDb(p)
  \/ \E p \in Slots : Respond(p)

SpecBoot == InitBoot /\ [][NextBoot]_vars

\* ------------------------------------------------------ saveImageRecords
\* number of files in one upload
MaxFiles == 3

\* character code of '.'
Dot == 46

\* the uploaded files as multer hands them over: "a.png", "b.jpg", and a
\* name without extension, "c"
FileA == [ originalname |-> <<97, Dot, 112, 110, 103>>, mimetype |-> "image/png", size |-> 1 ]
FileB == [ originalname |-> <<98, Dot, 106, 112, 103>>, mimetype |-> "image/jpeg", size |-> 2 ]
FileC == [ originalname |-> <<99>>, mimetype |-> "image/png", size |-> 3 ]
Files == { FileA, FileB, FileC }

\* the files argument: undefined, or an array of up to MaxFiles files
FilesArguments ==
  { [given |-> FALSE, list |-> << >>] }
    \cup { [given |-> TRUE, list |-> l] :
             l \in UNION { [1..n -> Files] : n \in 0..MaxFiles } }

\* path.extname: from the last '.' of the name to its end; empty when the
\* name has no '.' or only a leading one
Extname(name) ==
  LET dots == { k \in 1..Len(name) : name[k] = Dot }
  IN IF dots = {} THEN << >>
     ELSE LET k == CHOOSE d \in dots : \A e \in dots : e <= d
          IN IF k = 1 THEN << >> ELSE SubSeq(name, k, Len(name))

\* uuidv4() + path.extname(file.originalname): the i-th name generated
Filename(i, file) == << i >> \o Extname(file.originalname)

\* what the steps of the upload helper leave alone
others == << models, calls, failures, boot >>

\* saveImageRecords(db, supabase, entityType, entityId, files): returns []
\* for no files, else enters the loop and calls uploadToSupabase for the
\* first file
SaveImageRecords ==
  /\ save.pc = "idle"
  /\ save' = IF ~ files.given \/ Len(files.list) = 0
               THEN [pc |-> "returned", i |-> 0, uploadResult |-> << >>, imageRecords |-> << >>]
               ELSE [pc |-> "upload", i |-> 1, uploadResult |-> << >>, imageRecords |-> << >>]
  /\ UNCHANGED << files, images, images_id_seq, bucket, outcomes, others >>

\* the frame after file i is done with: the next file, or return imageRecords
NextFile(records) ==
  IF save.i < Len(files.list)
    THEN [pc |-> "upload", i |-> save.i + 1, uploadResult |-> << >>, imageRecords |-> records]
    ELSE [pc |-> "returned", i |-> save.i, uploadResult |-> << >>, imageRecords |-> records]

\* variant: the catch block ends the loop
Skip_Stop(outcome) ==
  /\ outcomes' = Append(outcomes, outcome)
  /\ save' = [pc |-> "returned", i |-> save.i, uploadResult |-> << >>,
               imageRecords |-> save.imageRecords]

\* catch (error) { console.error(...) }: continue with the other files
Skip(outcome) ==
  /\ outcomes' = Append(outcomes, outcome)
  /\ save' = NextFile(save.imageRecords)

\* uploadToSupabase resolves: the object is stored under a generated name
UploadToSupabase ==
  /\ save.pc = "upload"
  /\ LET filename == Filename(save.i, files.list[save.i])
     IN /\ bucket' = bucket \cup { filename }
        /\ save' = [save EXCEPT !.pc = "insert",
                                 !.uploadResult = << [ filename |-> filename,
                                                       path |-> << "publicUrl", filename >>,
                                                       storage_type |-> "supabase" ] >>]
  /\ UNCHANGED << files, images, images_id_seq, outcomes, others >>

\* the storage answers with an error, or the upload rejects:
\* uploadToSupabase throws
UploadFails ==
  /\ save.pc = "upload"
  /\ Skip("upload failed")
  /\ UNCHANGED << files, images, images_id_seq, bucket, others >>

\* INSERT INTO images ... RETURNING id resolves, and imageRecords.push
InsertImage ==
  /\ save.pc = "insert"
  /\ LET file == files.list[save.i]
         uploadResult == save.uploadResult[1]
         imageData == [ entity_type |-> "post", entity_id |-> 1,
                        filename |-> uploadResult.filename,
                        original_name |-> file.originalname,
                        mimetype |-> file.mimetype,
                        size |-> file.size,
                        path |-> uploadResult.path,
                        storage_type |-> uploadResult.storage_type ]
         id == images_id_seq + 1
     IN /\ images' = images \cup { imageData @@ [id |-> id] }
        /\ images_id_seq' = id
        /\ save' = NextFile(Append(save.imageRecords, imageData @@ [id |-> id]))
  /\ outcomes' = Append(outcomes, "saved")
  /\ UNCHANGED << files, bucket, others >>

\* db.execute rejects
InsertFails ==
  /\ save.pc = "insert"
  /\ Skip("insert failed")
  /\ UNCHANGED << files, images, images_id_seq, bucket, others >>

InitUpload ==
  /\ likes = EmptyBag
  /\ shares = EmptyBag
  /\ like_count = [c \in Contents |-> 0]
  /\ shared_count = [c \in { c \in Contents : c[1] # "comment" } |-> 0]
  /\ view_count = [c \in { c \in Contents : c[1] # "comment" } |-> 0]
  /\ statistics = {}
  /\ statistics_id_seq = 0
  /\ now = 0
  /\ pc = [p \in Slots |-> "idle"]
  /\ call = [p \in Slots |-> NoCall]
  /\ ret = [p \in Slots |-> NoRet]
  /\ stmts = [p \in Slots |-> <<>>]
  /\ snap = [p \in Slots |-> NoSnap]
  /\ clean = [p \in Slots |-> TRUE]
  /\ last = NoCall
  /\ calls = 0
  /\ failures = 0
  /\ inputs = {}
  /\ Warm
  /\ files \in FilesArguments
  /\ save = [pc |-> "idle"]
  /\ images = {}
  /\ images_id_seq = 0
  /\ bucket = {}
  /\ outcomes = << >>

NextUpload ==
  \/ SaveImageRecords
  \/ UploadToSupabase
  \/ UploadFails
  \/ InsertImage
  \/ InsertFails

SpecUpload == InitUpload /\ [][NextUpload]_vars

TypeOK ==
  /\ \A c \in DOMAIN like_count : like_count[c] \in Nat
  /\ calls \in 0..MaxCalls

\* ================================================================ claims
\* engaged flag of a toggle's return value: liked or shared
Engaged(v) == IF "liked" \in DOMAIN v THEN v.liked ELSE v.shared

Liked    == Value([liked |-> TRUE,  action |-> "liked"])
Unliked  == Value([liked |-> FALSE, action |-> "unliked"])
Shared   == Value([shared |-> TRUE,  action |-> "shared"])
Unshared == Value([shared |-> FALSE, action |-> "unshared"])
On(op)  == IF op = "toggleLike" THEN Liked ELSE Shared
Off(op) == IF op = "toggleLike" THEN Unliked ELSE Unshared

\* slot p holds the result of a toggle that no other call overlapped
CleanToggle(p) ==
  pc[p] = "returned" /\ clean[p] /\ call[p].op \in ToggleOps

\* the call completed just before was a toggle of the same identity on the
\* same content, and it returned a value
SecondOfTwo(p) ==
  /\ CleanToggle(p)
  /\ last.op = "done"
  /\ last.call.op = call[p].op
  /\ last.call.c = call[p].c
  /\ Key(last.call.c, ClientInfo(last.call.who)) = Key(call[p].c, ClientInfo(call[p].who))
  /\ last.ret.kind = "value"

TwiceRestores(p) ==
  /\ last.ret = On(call[p].op)
  /\ ret[p] = Off(call[p].op)
  /\ Observe(call[p]).cnt = last.before.cnt

\* C1 as stated: for any identity and content, two toggles in immediate
\* succession return engaged=true then engaged=false and the counter is back
\* at its value before the first.
C1_AnyTwoToggles ==
  \A p \in Slots : SecondOfTwo(p) => TwiceRestores(p)

\* C1 amended: for an identity that is not engaged with the content when the
\* first call starts, two toggles in immediate succession return engaged=true
\* ('liked'/'shared') then engaged=false ('unliked'/'unshared') and the
\* counter is back at its value before the first call.
C1_TwoTogglesFromNotEngaged ==
  \A p \in Slots : (SecondOfTwo(p) /\ last.before.own = 0) => TwiceRestores(p)

C1_Witness ==
  \E p \in Slots :
    /\ SecondOfTwo(p) /\ last.before.own = 0
    /\ call[p].c \in Contents
    /\ ret[p] = Off(call[p].op)

\* C2: in every reachable state like_count >= 0 and shared_count >= 0 for
\* every content row, whatever the interleaving of the calls.
C2_CountersNonNegative ==
  /\ \A c \in DOMAIN like_count : like_count[c] >= 0
  /\ \A c \in DOMAIN shared_count : shared_count[c] >= 0

\* two overlapping toggles of one identity both took the delete branch when
\* the counter was 1: the second decrement found the counter at 0
C2_Witness ==
  \E p \in Slots, q \in Slots :
    /\ p # q
    /\ pc[p] = "returned" /\ pc[q] = "returned"
    /\ call[p].op \in ToggleOps /\ call[p] = call[q]
    /\ ret[p] = Off(call[p].op) /\ ret[q] = Off(call[q].op)
    /\ snap[p].cnt = 1 /\ snap[q].cnt = 1
    /\ Observe(call[p]).cnt = 0

\* C3: right after a toggle that nothing overlapped returns, hasUserLiked /
\* hasUserShared for the same identity and content equals the engaged flag
\* the toggle returned, also when the identity had duplicate rows before.
C3_HasEngagedAgreesWithToggle ==
  \A p \in Slots :
    (CleanToggle(p) /\ ret[p].kind = "value") =>
      LET has == IF call[p].op = "toggleLike"
                   THEN HasUserLiked(call[p].c, ClientInfo(call[p].who))
                   ELSE HasUserShared(call[p].c, ClientInfo(call[p].who))
      IN has = Engaged(ret[p].value)

\* the toggle found two rows of its identity and returned engaged=false
C3_Witness ==
  \E p \in Slots :
    /\ CleanToggle(p)
    /\ snap[p].own = 2
    /\ ret[p] = Off(call[p].op)

\* the (identity_key, user_agent) part of a ledger key
Identity(k) == << k.user_ip, k.user_agent >>

\* C4: a statement of a toggle by identity A on content C never changes
\* what hasUserLiked / hasUserShared returns on C for an identity B # A.
C4_OtherIdentityUntouched ==
  [][ \A p \in Slots :
        ( /\ likes' # likes \/ shares' # shares
          /\ pc'[p] # pc[p]
          /\ call'[p].op \in ToggleOps ) =>
          \A b \in Clients :
            Identity(Key(call'[p].c, ClientInfo(b)))
                # Identity(Key(call'[p].c, ClientInfo(call'[p].who)))
            => /\ HasRow(likes', call'[p].c, ClientInfo(b))
                    = HasRow(likes, call'[p].c, ClientInfo(b))
               /\ HasRow(shares', call'[p].c, ClientInfo(b))
                    = HasRow(shares, call'[p].c, ClientInfo(b)) ]_vars

\* A has toggled its like off while B's like on the same content is in place
C4_Witness ==
  \E p \in Slots, w \in Clients :
    /\ pc[p] = "returned" /\ call[p].op = "toggleLike"
    /\ ret[p] = Unliked
    /\ Identity(Key(call[p].c, ClientInfo(w)))
         # Identity(Key(call[p].c, ClientInfo(call[p].who)))
    /\ HasUserLiked(call[p].c, ClientInfo(w))

\* C5: every incrementShareCount call on an existing content row adds exactly
\* 1 to its shared_count (two calls in a row add 2), changes no row of the
\* likes or shares ledger, and so leaves hasUserShared as it was.
C5_RawIncrementOnlyMovesCounter ==
  /\ [][ \A p \in Slots :
           (pc[p] = "idle" /\ pc'[p] = "returned"
              /\ call'[p].op = "incrementShareCount"
              /\ call'[p].c \in DOMAIN shared_count) =>
             /\ shared_count' = [shared_count EXCEPT ![call'[p].c] = @ + 1]
             /\ likes' = likes /\ shares' = shares
             /\ \A c \in Targets, w \in Clients :
                  HasUserShared(c, ClientInfo(w))' = HasUserShared(c, ClientInfo(w)) ]_vars
  /\ [] \A p \in Slots :
          (pc[p] = "returned" /\ clean[p] /\ call[p].op = "incrementShareCount"
             /\ call[p].c \in DOMAIN shared_count
             /\ last.op = "done" /\ last.call = call[p] /\ last.ret.kind = "value") =>
            /\ shared_count[call[p].c] = last.before.cnt + 2
            /\ RowsFor(shares, call[p].c) = last.before.rows

\* the second of two raw increments in a row on a content row that has a
\* share row
C5_Witness ==
  \E p \in Slots :
    /\ pc[p] = "returned" /\ clean[p] /\ call[p].op = "incrementShareCount"
    /\ call[p].c \in DOMAIN shared_count
    /\ last.op = "done" /\ last.call = call[p] /\ last.ret.kind = "value"
    /\ last.before.rows = 1
    /\ shared_count[call[p].c] = last.before.cnt + 2
    /\ RowsFor(shares, call[p].c) = 1

\* C6 as stated: the likes ledger and the shares ledger each hold at most
\* one row per (identity_key, user_agent, content_type, content_id).
C6_AtMostOneRowPerKey ==
  /\ \A k \in DOMAIN likes : likes[k] <= 1
  /\ \A k \in DOMAIN shares : shares[k] <= 1

\* the two calls started last are toggleLike calls of one identity on one
\* content row, q after p; both had read 'not found' and both are done
BothReadNotFound(p, q) ==
  /\ p # q
  /\ pc[p] = "returned" /\ pc[q] = "returned"
  /\ call[p].op = "toggleLike" /\ call[q].op = "toggleLike"
  /\ call[p].c = call[q].c
  /\ call[p].c \in DOMAIN like_count
  /\ Key(call[p].c, ClientInfo(call[p].who)) = Key(call[q].c, ClientInfo(call[q].who))
  /\ snap[p].own = 0 /\ snap[q].own = 0
  /\ snap[p].seq + 1 = snap[q].seq /\ snap[q].seq = calls

\* C7: when two concurrent toggleLike calls of one identity both read 'not
\* found', both insert a row and both return liked=true, and like_count
\* ends 2 above its value before the calls; the witness shows that this
\* interleaving is reachable.
C7_RaceInsertsTwiceCountsTwice ==
  \A p \in Slots, q \in Slots :
    BothReadNotFound(p, q) =>
      /\ ret[p] = Liked /\ ret[q] = Liked
      /\ SelectRows(likes, Key(call[p].c, ClientInfo(call[p].who))) = 2
      /\ like_count[call[p].c] = snap[q].cnt + 2

C7_Witness ==
  \E p \in Slots, q \in Slots :
    /\ BothReadNotFound(p, q)
    /\ ret[p] = Liked /\ ret[q] = Liked
    /\ SelectRows(likes, Key(call[p].c, ClientInfo(call[p].who))) = 2
    /\ snap[p].cnt = snap[q].cnt
    /\ like_count[call[p].c] = snap[p].cnt + 2

\* C8 as stated: a complete toggle that nothing overlapped and that did not
\* fail, started where every counter equals the number of ledger rows of
\* its content row, ends where the equalities hold again.
C8_TogglesKeepCountersInSync ==
  \A p \in Slots :
    (CleanToggle(p) /\ ret[p].kind = "value" /\ snap[p].insync) => InSync

\* C9: a toggle that takes the delete branch while its counter is 0 leaves
\* the counter at 0 and returns engaged=false ('unliked'/'unshared'); the
\* code raises no error for the UPDATE that matches no row, and when nothing
\* overlapped the call no row of the identity is left.
C9_DisengageAtZero ==
  /\ [][ \A p \in Slots :
           ( /\ pc[p] = "decrement" /\ pc'[p] # pc[p]
             /\ failures' = failures
             /\ call[p].c \in DOMAIN ColumnOf(call[p].op)
             /\ ColumnOf(call[p].op)[call[p].c] = 0 ) =>
             /\ pc'[p] = "returned"
             /\ ret'[p] = Off(call[p].op)
             /\ like_count' = like_count /\ shared_count' = shared_count ]_vars
  /\ [] \A p \in Slots :
          (CleanToggle(p) /\ snap[p].own > 0 /\ snap[p].cnt = 0) =>
            /\ ret[p] = Off(call[p].op)
            /\ Observe(call[p]).own = 0
            /\ Observe(call[p]).cnt = 0

C9_Witness ==
  \E p \in Slots :
    /\ CleanToggle(p) /\ snap[p].own > 0 /\ snap[p].cnt = 0
    /\ ret[p] = Off(call[p].op)
    /\ Observe(call[p]).own = 0 /\ Observe(call[p]).cnt = 0

\* C10: when the store rejects the counter UPDATE of a toggle whose INSERT or
\* DELETE went through, the toggle throws the store's error, the UPDATE is
\* the last statement it sends, nothing in the store changes with or after
\* the failure on its behalf, and (when nothing overlapped the call) the
\* ledger change is in place while the counter has its value from before.
C10_UpdateFailurePropagates ==
  /\ [][ \A p \in Slots :
           (pc[p] \in {"decrement", "increment"} /\ pc'[p] = "failed") =>
             /\ \E e \in StoreErrors : ret'[p] = Thrown(e)
             /\ stmts'[p] = Append(stmts[p], "UPDATE")
             /\ store' = store ]_vars
  /\ [][ \A p \in Slots :
           (pc[p] = "failed" /\ pc'[p] # pc[p]) =>
             /\ pc'[p] = "idle"
             /\ store' = store
             /\ clean[p] => last'.ret = ret[p] ]_vars
  /\ [][ \A p \in Slots :
           (pc[p] = "failed" /\ pc'[p] = pc[p]) =>
             (stmts'[p] = stmts[p] /\ ret'[p] = ret[p]) ]_vars
  /\ [] \A p \in Slots :
          (pc[p] = "failed" /\ clean[p] /\ Len(stmts[p]) = 3) =>
            /\ Observe(call[p]).cnt = snap[p].cnt
            /\ Observe(call[p]).own = IF stmts[p][2] = "INSERT" THEN snap[p].own + 1 ELSE 0

\* the UPDATE after an INSERT was rejected: the row is there, the counter
\* of the content row is as before
C10_Witness ==
  \E p \in Slots :
    /\ pc[p] = "failed" /\ clean[p]
    /\ stmts[p] = << "SELECT", "INSERT", "UPDATE" >>
    /\ call[p].c \in Contents
    /\ Observe(call[p]).own = 1
    /\ Observe(call[p]).cnt = snap[p].cnt

\* a ledger row that matches (identity_key, user_agent, content_type,
\* content_id) of caller w on content c exists in table
RowExists(table, c, w) ==
  \E k \in DOMAIN table :
    /\ table[k] > 0
    /\ k.content_type = c[1] /\ k.content_id = c[2]
    /\ Identity(k) = Identity(Key(c, ClientInfo(w)))

\* C11: a hasUserLiked / hasUserShared call leaves the likes ledger, the
\* shares ledger, every counter and the statistics log as they were, and its
\* result is true exactly when a ledger row matching the caller's
\* (identity_key, user_agent, content_type, content_id) exists.
C11_HasUserReadsOnly ==
  [][ \A p \in Slots :
        (pc[p] = "idle" /\ pc'[p] = "returned" /\ call'[p].op \in HasOps) =>
          /\ store' = store
          /\ statistics' = statistics
          /\ ret'[p] = Value(RowExists(IF call'[p].op = "hasUserLiked" THEN likes ELSE shares,
                                       call'[p].c, call'[p].who)) ]_vars

\* a membership check returned true while the statistics log holds a row
C11_Witness ==
  \E p \in Slots :
    /\ pc[p] = "returned" /\ call[p].op \in HasOps
    /\ ret[p] = Value(TRUE)
    /\ statistics # {}
    /\ like_count[call[p].c] > 0

\* the identity the resolver is specified to give: the fingerprint when
\* clientInfo carries one, the network IP otherwise
SpecifiedIdentity(clientInfo) ==
  IF "fingerprint" \in DOMAIN clientInfo THEN clientInfo.fingerprint
                                         ELSE clientInfo.ip

\* C12 as stated: the identity key an Article toggle stores is the caller's
\* fingerprint when clientInfo carries one and the network IP when it
\* carries an ip but no fingerprint (cut to the width of the column).
C12_IdentityKeyIsFingerprintOrIp ==
  \A p \in Slots :
    (pc[p] = "increment" /\ clean[p] /\ call[p].c[1] = "article") =>
      LET clientInfo == ClientInfo(call[p].who)
          key == [ Key(call[p].c, clientInfo) EXCEPT
                     !.user_ip = Substring(SpecifiedIdentity(clientInfo), IpMaxLen) ]
      IN SelectRows(TableOf(call[p].op), key) > 0

\* C13 as stated: every row of the likes and shares ledger has an identity
\* key of at most 45 characters and a user agent of at most 255 characters.
C13_LedgerRowsTruncated ==
  \A k \in (DOMAIN likes) \cup (DOMAIN shares) :
    Len(k.user_ip) <= IpMaxLen /\ Len(k.user_agent) <= UaMaxLen

\* after the second of two toggles in a row the identity's ledger membership
\* and the counter are what they were before the first
Restored(p) ==
  /\ (Observe(call[p]).own > 0) = (last.before.own > 0)
  /\ Observe(call[p]).cnt = last.before.cnt

\* the first of the two toggles started from an engaged identity whose
\* counter had drifted to 0
DriftedToZero == last.before.own > 0 /\ last.before.cnt = 0

\* C14 as stated: from every reachable state, two successive toggles that
\* nothing overlaps restore the identity's ledger membership and the counter.
C14_ToggleTwiceRestores ==
  \A p \in Slots : SecondOfTwo(p) => Restored(p)

\* C14 amended: two successive toggles that nothing overlaps restore the
\* identity's ledger membership and the counter, unless the identity was
\* engaged while the counter stood at 0 (then the counter ends at 1).
C14_ToggleTwiceRestoresUnlessDrifted ==
  \A p \in Slots :
    SecondOfTwo(p) =>
      IF DriftedToZero
        THEN (Observe(call[p]).own > 0) /\ Observe(call[p]).cnt = 1
        ELSE Restored(p)

\* an engaged identity with a counter above 0 toggled off and on again
C14_Witness ==
  \E p \in Slots :
    /\ SecondOfTwo(p)
    /\ last.before.own > 0 /\ last.before.cnt > 0
    /\ ret[p] = On(call[p].op)
    /\ Restored(p)

\* this step is the single statement of a call of method op by slot p
CallOf(p, op) ==
  pc[p] = "idle" /\ pc'[p] = "returned" /\ call'[p].op = op

\* no row that stays in the statistics log is changed by this step
RowsKept ==
  \A row \in statistics :
    (\E other \in statistics' : other.id = row.id) => row \in statistics'

\* this step is a cleanOldStats statement
SweepStep == \E p \in Slots : CallOf(p, "cleanOldStats")

\* this step is the statistics DELETE of a delete(id) call on the content
\* item the row refers to
CascadeStep(row) ==
  \E p \in Slots :
    /\ pc[p] = "del_statistics" /\ pc'[p] # pc[p]
    /\ row.entity_type = Chars(call[p].c[1])
    /\ row.entity_id = call[p].c[2]

\* C15 as stated: no step of any model operation modifies a statistics row,
\* and a statistics row is removed only by cleanOldStats.
C15_RemovedOnlyBySweep ==
  [][ /\ RowsKept
      /\ \A row \in statistics \ statistics' : SweepStep ]_vars

\* C15 amended: no step of any model operation modifies a statistics row,
\* and a statistics row is removed only by cleanOldStats or by the delete of
\* the content item whose entity_type and entity_id the row carries.
C15_RemovedOnlyBySweepOrCascade ==
  [][ /\ RowsKept
      /\ \A row \in statistics \ statistics' : SweepStep \/ CascadeStep(row) ]_vars

\* delete(1) of the article has removed the logged row of article 1 and
\* left a row of article 2 in the log
C15_Witness ==
  \E p \in Slots :
    /\ pc[p] = "returned" /\ call[p] = [op |-> "delete", c |-> <<"article", 1>>]
    /\ SeedRow \in snap[p].stats
    /\ SeedRow \notin statistics
    /\ \E row \in statistics : row.entity_id = 2 /\ row \in snap[p].stats

\* slot p holds the result of a call of method op that nothing overlapped,
\* made right after a call of method before returned
CleanAfter(p, op, before) ==
  /\ pc[p] = "returned" /\ clean[p] /\ call[p].op = op
  /\ last.op = "done" /\ last.call.op = before /\ last.ret.kind = "value"

\* C16: record appends exactly one new statistics row, also when the same
\* event is in the log already, and returns the id the store generated for
\* it; a getByEntity(entityType, entityId) right after it returns the new
\* row in a result ordered by created_at descending.
C16_RecordAppendsAndIsRead ==
  /\ [][ \A p \in Slots :
           CallOf(p, "record") =>
             \E row \in statistics' :
               /\ \A old \in statistics : old.id # row.id
               /\ statistics' = statistics \cup { row }
               /\ row.entity_type = call'[p].entityType
               /\ row.entity_id = call'[p].entityId
               /\ row.action = call'[p].action
               /\ ret'[p] = Value(row.id) ]_vars
  /\ [] \A p \in Slots :
          ( /\ CleanAfter(p, "getByEntity", "record")
            /\ call[p].entityType = last.call.entityType
            /\ call[p].entityId = last.call.entityId
            /\ call[p].action \in { Null, last.call.action } ) =>
            LET rows == ret[p].value
            IN /\ \E i \in 1..Len(rows) : rows[i].id = last.ret.value
               /\ \A i \in 1..Len(rows), j \in 1..Len(rows) :
                    i < j => rows[i].created_at >= rows[j].created_at

\* getByEntity right after a record of an event that was in the log already:
\* the result holds both rows, the new one under the id record returned
C16_Witness ==
  \E p \in Slots :
    /\ CleanAfter(p, "getByEntity", "record")
    /\ call[p].entityId = last.call.entityId
    /\ call[p].action = Null
    /\ \E i \in 1..Len(ret[p].value), j \in 1..Len(ret[p].value) :
         /\ ret[p].value[i].id = last.ret.value
         /\ ret[p].value[j].id # last.ret.value
         /\ Event(ret[p].value[i]) = Event(ret[p].value[j])

\* C17: cleanOldStats(daysToKeep) removes exactly the statistics rows whose
\* created_at is strictly older than now minus daysToKeep days, leaves every
\* other row as it is, and returns the number of rows it removed; with
\* daysToKeep = 0 these are the rows older than now.
C17_SweepRemovesStrictlyOlder ==
  [][ \A p \in Slots :
        CallOf(p, "cleanOldStats") =>
          LET cutoff == now' - call'[p].daysToKeep * DayTicks
          IN /\ statistics' = { row \in statistics : row.created_at >= cutoff }
             /\ ret'[p] = Value(Cardinality({ row \in statistics : row.created_at < cutoff }))
             /\ call'[p].daysToKeep = 0 =>
                  statistics' = { row \in statistics : ~(row.created_at < now') } ]_vars

\* cleanOldStats(1) removed the row that was older than a day and kept the
\* row that was exactly one day old
C17_Witness ==
  \E p \in Slots :
    /\ pc[p] = "returned" /\ call[p] = [op |-> "cleanOldStats", daysToKeep |-> 1]
    /\ ret[p] = Value(Cardinality(snap[p].stats \ statistics))
    /\ \E row \in snap[p].stats \ statistics : row.created_at < now - DayTicks
    /\ \E row \in statistics : row.created_at = now - DayTicks

\* the longest beginning of s that holds no '_'
BeforeFirstUnderscore(s) ==
  LET n == CHOOSE k \in 0..Len(s) :
             /\ \A i \in 1..k : s[i] # Underscore
             /\ k = Len(s) \/ s[k + 1] = Underscore
  IN SubSeq(s, 1, n)

\* what the log holds for property f of clientInfo: its text, NULL when
\* clientInfo carries none
FromClient(clientInfo, f) ==
  IF f \in DOMAIN clientInfo /\ clientInfo[f] # <<>> THEN clientInfo[f] ELSE Null

\* C18: logAction(action, entityId, clientInfo) records exactly one event:
\* its action is the given text unchanged, its entity_type the part of that
\* text before the first '_' (all of it when there is none), its ip, user
\* agent, country and city those of clientInfo; it returns the id of the row.
C18_LogActionRecordsOneEvent ==
  [][ \A p \in Slots :
        CallOf(p, "logAction") =>
          LET clientInfo == ClientInfo(call'[p].who)
          IN \E row \in statistics' :
               /\ \A old \in statistics : old.id # row.id
               /\ statistics' = statistics \cup { row }
               /\ row.action = call'[p].action
               /\ row.entity_type = BeforeFirstUnderscore(call'[p].action)
               /\ row.entity_id = call'[p].entityId
               /\ row.ip_address = FromClient(clientInfo, "ip")
               /\ row.user_agent = FromClient(clientInfo, "userAgent")
               /\ row.country = FromClient(clientInfo, "country")
               /\ row.city = FromClient(clientInfo, "city")
               /\ ret'[p] = Value(row.id) ]_vars

\* logAction("post_like_add", 1, clientInfo) has logged an event of entity
\* type "post" and returned its id
C18_Witness ==
  \E p \in Slots :
    /\ pc[p] = "returned" /\ call[p].op = "logAction"
    /\ call[p].action = ActPostLikeAdd
    /\ \E row \in statistics \ snap[p].stats :
         /\ ret[p] = Value(row.id)
         /\ row.entity_type = Chars("post")
         /\ row.action = ActPostLikeAdd

\* the events of entity e that a getTopContent call r counts when NOW() is t
Counted(r, e, t) ==
  { row \in statistics :
      /\ row.entity_type = r.entityType /\ row.action = r.action
      /\ row.entity_id = e
      /\ row.created_at >= t - r.days * DayTicks }

\* C19: getTopContent(entityType, action, limit, days) returns at most limit
\* rows (all entities when there are no more than limit), one per entity_id,
\* each with the number of events of that entity type and action created in
\* the trailing days window, ordered by that total descending, and no
\* entity left out has a higher total than an entity returned.
C19_TopContentIsTopK ==
  [][ \A p \in Slots :
        CallOf(p, "getTopContent") =>
          LET r == call'[p]
              rows == ret'[p].value
              ids == { row.entity_id : row \in statistics }
              ranked == { e \in ids : Counted(r, e, now') # {} }
              returned == { rows[i].entity_id : i \in 1..Len(rows) }
          IN /\ Len(rows) = Min(r.limit, Cardinality(ranked))
             /\ Cardinality(returned) = Len(rows)
             /\ returned \subseteq ranked
             /\ \A i \in 1..Len(rows) :
                  rows[i].total_count = Cardinality(Counted(r, rows[i].entity_id, now'))
             /\ \A i \in 1..Len(rows), j \in 1..Len(rows) :
                  i < j => rows[i].total_count >= rows[j].total_count
             /\ \A e \in ranked \ returned, i \in 1..Len(rows) :
                  rows[i].total_count >= Cardinality(Counted(r, e, now')) ]_vars

\* getTopContent with limit 1 returned the entity with two events in the
\* window and left out an entity with one
C19_Witness ==
  \E p \in Slots :
    /\ pc[p] = "returned" /\ call[p].op = "getTopContent"
    /\ call[p].limit = 1
    /\ Len(ret[p].value) = 1
    /\ ret[p].value[1].total_count = 2
    /\ \E e \in { row.entity_id : row \in statistics } :
         /\ e # ret[p].value[1].entity_id
         /\ Cardinality(Counted(call[p], e, now)) = 1
\* this step is a statement of a delete(id) call
DeleteStep == \E p \in Slots : call'[p].op = "delete" /\ pc'[p] # pc[p]

\* C20: view_count is monotonic. An incrementViewCount call on an existing
\* content item raises its view_count by exactly 1, whatever calls came
\* before, and returns true; a call on a missing id returns false and
\* changes nothing; no step of a toggle, of incrementShareCount, of a
\* membership check or of a statistics method changes view_count.
C20_ViewCountMonotonic ==
  [][ /\ \A p \in Slots :
           CallOf(p, "incrementViewCount") =>
             LET c == call'[p].c IN
               IF c \in DOMAIN view_count
                 THEN /\ view_count' = [view_count EXCEPT ![c] = @ + 1]
                      /\ ret'[p] = Value(TRUE)
                 ELSE /\ store' = store /\ log' = log
                      /\ ret'[p] = Value(FALSE)
      /\ \A c \in DOMAIN view_count \cap DOMAIN view_count' :
           view_count'[c] >= view_count[c]
      /\ view_count' # view_count =>
           \/ \E p \in Slots : CallOf(p, "incrementViewCount")
           \/ DeleteStep ]_vars

\* the second incrementViewCount of article 1 has returned true with the
\* counter at 2, and an incrementViewCount of the missing article 2 has
\* returned false
C20_Witness ==
  \E p \in Slots, q \in Slots :
    /\ pc[p] = "returned" /\ pc[q] = "returned"
    /\ call[p] = [op |-> "incrementViewCount", c |-> <<"article", 1>>]
    /\ call[q] = [op |-> "incrementViewCount", c |-> <<"article", 2>>]
    /\ ret[p] = Value(TRUE) /\ ret[q] = Value(FALSE)
    /\ view_count[<<"article", 1>>] = 2

\* this step is a statement of a call of one of the methods in ops
StepOf(ops) == \E p \in Slots : pc'[p] # pc[p] /\ call'[p].op \in ops

\* C21: the statistics log and the engagement ledger are independent. No
\* step of record or logAction changes a likes or shares row or a
\* like_count, shared_count or view_count; no step of toggleLike,
\* toggleShare, incrementShareCount or incrementViewCount appends to,
\* changes or removes a statistics row.
C21_LogAndLedgerIndependent ==
  [][ /\ StepOf({ "record", "logAction" }) => store' = store
      /\ StepOf(ToggleOps \cup IncrementOps) =>
           statistics' = statistics /\ statistics_id_seq' = statistics_id_seq
    ]_vars

\* a record call has appended a row to a log that a toggleLike, which
\* has returned engaged with its ledger row and counter in place, left alone
C21_Witness ==
  \E p \in Slots, q \in Slots :
    /\ pc[p] = "returned" /\ call[p].op = "record"
    /\ pc[q] = "returned" /\ call[q].op = "toggleLike"
    /\ ret[q] = On("toggleLike")
    /\ RowsFor(likes, call[q].c) = 1 /\ like_count[call[q].c] = 1
    /\ SeedRows \subseteq statistics
    /\ \E row \in statistics \ SeedRows : ret[p] = Value(row.id)

\* the two calls started last are toggleLike calls of one identity on one
\* content row, q after p; both had read 'found' before either deleted, and
\* both are done
BothReadFound(p, q) ==
  /\ p # q
  /\ pc[p] = "returned" /\ pc[q] = "returned"
  /\ call[p].op = "toggleLike" /\ call[q].op = "toggleLike"
  /\ call[p].c = call[q].c
  /\ call[p].c \in DOMAIN like_count
  /\ Key(call[p].c, ClientInfo(call[p].who)) = Key(call[q].c, ClientInfo(call[q].who))
  /\ snap[p].own = 1 /\ snap[q].own = 1
  /\ snap[p].seq + 1 = snap[q].seq /\ snap[q].seq = calls

\* C22: when two concurrent toggleLike calls of one engaged identity both
\* read 'found', both issue the DELETE and both decrement: both return
\* unliked, one ledger row is gone and like_count ends 2 below its value
\* before the calls (0 at the least); the witness shows that the
\* interleaving is reachable and leaves like_count below the number of
\* like rows that remain for the content when another identity is engaged.
C22_RaceDeletesOnceCountsTwice ==
  \A p \in Slots, q \in Slots :
    BothReadFound(p, q) =>
      /\ ret[p] = Unliked /\ ret[q] = Unliked
      /\ stmts[p] = << "SELECT", "DELETE", "UPDATE" >> /\ stmts[q] = stmts[p]
      /\ SelectRows(likes, Key(call[p].c, ClientInfo(call[p].who))) = 0
      /\ RowsFor(likes, call[p].c) = snap[q].rows - 1
      /\ like_count[call[p].c] = IF snap[q].cnt >= 2 THEN snap[q].cnt - 2 ELSE 0

C22_Witness ==
  \E p \in Slots, q \in Slots :
    /\ BothReadFound(p, q)
    /\ snap[p].cnt = 2 /\ snap[q].cnt = 2 /\ snap[q].rows = 2
    /\ like_count[call[p].c] = 0
    /\ RowsFor(likes, call[p].c) = 1
    /\ like_count[call[p].c] < RowsFor(likes, call[p].c)

\* the answers hasUserLiked and hasUserShared give for every content id and
\* every caller
LikedAnswers ==
  [ c \in Targets, w \in Callers |-> HasUserLiked(c, ClientInfo(w)) ]
SharedAnswers ==
  [ c \in Targets, w \in Callers |-> HasUserShared(c, ClientInfo(w)) ]

\* C23: like and share are separate partitions. No step of toggleLike
\* changes the shares ledger, a shared_count or an answer of hasUserShared;
\* no step of toggleShare or incrementShareCount changes the likes ledger,
\* a like_count or an answer of hasUserLiked.
C23_LikeAndShareSeparate ==
  [][ /\ StepOf({ "toggleLike" }) =>
           /\ shares' = shares /\ shared_count' = shared_count
           /\ SharedAnswers' = SharedAnswers
      /\ StepOf({ "toggleShare", "incrementShareCount" }) =>
           /\ likes' = likes /\ like_count' = like_count
           /\ LikedAnswers' = LikedAnswers ]_vars

\* an identity that had shared a content item has liked it and then unliked
\* it, and its share row and the share counter are still in place
C23_Witness ==
  \E p \in Slots :
    /\ pc[p] = "returned" /\ call[p].op = "toggleLike" /\ ret[p] = Unliked
    /\ call[p].c \in DOMAIN shared_count
    /\ HasUserShared(call[p].c, ClientInfo(call[p].who))
    /\ ~ HasUserLiked(call[p].c, ClientInfo(call[p].who))
    /\ shared_count[call[p].c] = 1
    /\ snap[p].own = 1

\* the ledger rows of table that do not belong to content item c
RowsElsewhere(table, c) ==
  [ k \in { k \in DOMAIN table : k.content_type # c[1] \/ k.content_id # c[2] }
    |-> table[k] ]

\* the answers of hasUserLiked and hasUserShared for the content items other
\* than c
AnswersElsewhere(c) ==
  [ d \in Contents \ {c}, w \in Callers \cup {"F"} |->
      << HasUserLiked(d, ClientInfo(w)), HasUserShared(d, ClientInfo(w)) >> ]

\* the counters of the content items other than c
CountersElsewhere(c) ==
  << [ d \in (DOMAIN like_count) \ {c} |-> like_count[d] ],
     [ d \in (DOMAIN shared_count) \ {c} |-> shared_count[d] ] >>

\* C24: content types are isolated. A step of a toggle on content item c
\* changes no ledger row of another content item, no counter of another
\* content item and no hasUserLiked/hasUserShared answer for another content
\* item, in particular for the item of another type that has the same id.
C24_ContentTypesIsolated ==
  [][ \A p \in Slots, c \in Targets :
        (pc'[p] # pc[p] /\ call'[p].op \in ToggleOps /\ call'[p].c = c) =>
          /\ RowsElsewhere(likes, c)' = RowsElsewhere(likes, c)
          /\ RowsElsewhere(shares, c)' = RowsElsewhere(shares, c)
          /\ CountersElsewhere(c)' = CountersElsewhere(c)
          /\ AnswersElsewhere(c)' = AnswersElsewhere(c) ]_vars

\* a caller that had liked two content items of different type with the
\* same id under the same user_ip and user_agent has unliked one of them,
\* and the like of the other is still in place
C24_Witness ==
  \E p \in Slots, d \in Contents :
    /\ pc[p] = "returned" /\ call[p].op = "toggleLike" /\ ret[p] = Unliked
    /\ d # call[p].c /\ d[2] = call[p].c[2]
    /\ LET mine == Key(call[p].c, ClientInfo(call[p].who))
           other == Key(d, ClientInfo(call[p].who))
       IN /\ other.user_ip = mine.user_ip /\ other.user_agent = mine.user_agent
          /\ SelectRows(likes, mine) = 0
          /\ SelectRows(likes, other) = 1
    /\ like_count[call[p].c] = 0 /\ like_count[d] = 1
    /\ HasUserLiked(d, ClientInfo(call[p].who))

\* C25: a toggle on an id that has no content row raises no error and
\* changes no counter; when nothing overlaps it, it inserts a ledger row and
\* returns engaged=true if the identity had no row, and removes the row and
\* returns engaged=false if it had one. incrementShareCount and
\* incrementViewCount on such an id return false and change nothing.
C25_MissingContentId ==
  /\ [][ \A p \in Slots :
           (pc'[p] # pc[p] /\ pc[p] # "returned" /\ call'[p].c \in MissingIds) =>
             /\ pc'[p] # "failed"
             /\ like_count' = like_count /\ shared_count' = shared_count
             /\ view_count' = view_count
             /\ call'[p].op \in IncrementOps =>
                  store' = store /\ ret'[p] = Value(FALSE) ]_vars
  /\ [] \A p \in Slots :
          (CleanToggle(p) /\ call[p].c \in MissingIds) =>
            LET own == SelectRows(TableOf(call[p].op),
                                  Key(call[p].c, ClientInfo(call[p].who)))
            IN IF snap[p].own = 0
                 THEN ret[p] = On(call[p].op) /\ own = 1
                 ELSE ret[p] = Off(call[p].op) /\ own = 0

\* the second toggle on an id without a content row has removed the ledger
\* row the first one had inserted, after the first returned engaged=true
C25_Witness ==
  \E p \in Slots :
    /\ SecondOfTwo(p) /\ call[p].c \in MissingIds
    /\ last.ret = On(call[p].op) /\ last.before.own = 0
    /\ snap[p].own = 1 /\ snap[p].cnt = NoRow
    /\ ret[p] = Off(call[p].op)
    /\ RowsFor(TableOf(call[p].op), call[p].c) = 0

\* two different clients whose fingerprints agree on their first 45
\* characters and whose user agents agree on their first 255 characters
Twins(v, w) ==
  LET a == ClientInfo(v)
      b == ClientInfo(w)
  IN /\ a # b
     /\ SubSeq(a.fingerprint, 1, Min(IpMaxLen, Len(a.fingerprint)))
          = SubSeq(b.fingerprint, 1, Min(IpMaxLen, Len(b.fingerprint)))
     /\ SubSeq(a.userAgent, 1, Min(UaMaxLen, Len(a.userAgent)))
          = SubSeq(b.userAgent, 1, Min(UaMaxLen, Len(b.userAgent)))

\* slot p holds the result of a call on the article, which nothing
\* overlapped, made right after a toggle of a twin of its caller had
\* returned engaged=true
AfterTwinEngaged(p) ==
  /\ pc[p] = "returned" /\ clean[p]
  /\ call[p].op \in ToggleOps \cup HasOps
  /\ call[p].c[1] = "article"
  /\ last.op = "done"
  /\ last.call.op \in ToggleOps /\ last.call.c = call[p].c
  /\ (last.call.op = "toggleLike") = (call[p].op \in { "toggleLike", "hasUserLiked" })
  /\ Twins(last.call.who, call[p].who)
  /\ last.ret = On(last.call.op)

\* C26: in the Article model two clients whose fingerprints agree on their
\* first 45 characters and whose user agents agree on their first 255
\* characters are one identity: right after one of them toggled a like
\* (share) on, hasUserLiked (hasUserShared) returns true for the other, and
\* a toggle of the other removes the row and returns engaged=false.
C26_TruncatedIdentitiesCollide ==
  \A p \in Slots :
    AfterTwinEngaged(p) =>
      IF call[p].op \in HasOps
        THEN ret[p] = Value(TRUE)
        ELSE /\ ret[p] = Off(call[p].op)
             /\ RowsFor(TableOf(call[p].op), call[p].c) = 0

\* the twin's toggle has removed the row the first client's toggle had
\* inserted, for user agents that differ in their 256th character only
C26_Witness ==
  \E p \in Slots :
    /\ AfterTwinEngaged(p)
    /\ call[p].op = "toggleLike" /\ ret[p] = Unliked
    /\ ClientInfo(call[p].who).userAgent # ClientInfo(last.call.who).userAgent
    /\ snap[p].own = 1 /\ snap[p].rows = 1
    /\ RowsFor(likes, call[p].c) = 0

\* attempt n has been started and its body has not finished
InFlight(n) == n \in 1..Len(promises) /\ promises[n].state = "pending"

\* this step starts an initialisation attempt: it calls initDatabase
StartsAttempt == Len(promises') > Len(promises)

\* C27: database initialisation is single-flight. No step starts an attempt
\* while an earlier one is in flight or after one has succeeded; a request
\* that arrives while an attempt is in flight awaits that attempt's
\* promise; isInitialized never returns to false.
C27_SingleFlight ==
  [][ /\ StartsAttempt =>
           \A n \in 1..Len(promises) : promises[n].state = "rejected"
      /\ \A p \in Slots, n \in 1..Len(promises) :
           (InFlight(n) /\ requests[p].pc = "idle" /\ requests'[p].pc # "idle") =>
             requests'[p].pc = "awaiting" /\ requests'[p].on = n
      /\ isInitialized => isInitialized' ]_vars

\* two requests await the promise of the one attempt, which stands at a
\* table step
C27_Witness ==
  /\ Len(promises) = 1 /\ InFlight(1) /\ initPromise = 1
  /\ position[1] \in 1..TableSteps
  /\ \A p \in Slots : requests[p].pc = "awaiting" /\ requests[p].on = 1
  /\ ~ isInitialized

\* C28: every statement lazyDb.execute, lazyDb.query or
\* lazyDb.getConnection has handed to a pool reached a pool for which
\* initDatabase and all ten table steps had completed; a request that holds
\* a pool holds such a pool; isInitialized is true only where dbPool is set
\* and every table step for it has finished.
C28_NoStatementBeforeTables ==
  /\ \A s \in sent : s.pool # 0 /\ s.ready /\ s.flag
  /\ \A p \in Slots :
       requests[p].pc \in { "resolved", "sent" } => PoolReady(requests[p].db)
  /\ isInitialized => dbPool # 0 /\ PoolReady(dbPool)

\* after a first attempt failed, a statement has reached the pool of the
\* second attempt, whose table steps are complete
C28_Witness ==
  /\ Len(promises) = 2
  /\ promises[1].state = "rejected"
  /\ isInitialized /\ dbPool = 2 /\ position[2] = Settled
  /\ \E s \in sent : s.pool = 2 /\ s.method = "execute"

\* attempt n fails in this step
Fails(n) ==
  n \in 1..Len(promises) /\ promises[n].state = "pending" /\ promises'[n].state = "rejected"

\* C29: when an initialisation attempt fails, at initDatabase or at any
\* table step, isInitialized stays false and initPromise is cleared; every
\* request that awaits the attempt gets the error and never a pool; a
\* request that arrives afterwards, before an attempt has succeeded, is not
\* handed the failed promise: it awaits a fresh attempt, which it starts
\* when none is in flight.
C29_FailedAttemptIsNotKept ==
  [][ /\ \A n \in 1..Len(promises) :
           Fails(n) => ~ isInitialized /\ ~ isInitialized' /\ initPromise' = 0
      /\ \A p \in Slots :
           ( /\ requests[p].pc = "awaiting" /\ requests'[p] # requests[p]
             /\ promises[requests[p].on].state = "rejected" ) =>
               requests'[p].pc = "thrown"
      /\ \A p \in Slots :
           ( /\ requests[p].pc = "idle" /\ requests'[p].pc # "idle"
             /\ ~ isInitialized
             /\ \E n \in 1..Len(promises) : promises[n].state = "rejected" ) =>
               /\ requests'[p].pc = "awaiting"
               /\ promises'[requests'[p].on].state = "pending"
               /\ (initPromise = 0 => StartsAttempt /\ requests'[p].on = Len(promises'))
    ]_vars

\* the first attempt failed at a table step and its request got the error;
\* a request that arrived afterwards awaits a second attempt in flight
C29_Witness ==
  \E p \in Slots, q \in Slots :
    /\ Len(promises) = 2
    /\ promises[1].state = "rejected" /\ dbPool = 1
    /\ requests[p].pc = "thrown" /\ requests[p].on = 1
    /\ requests[q].pc = "awaiting" /\ requests[q].on = 2
    /\ InFlight(2) /\ initPromise = 2
    /\ ~ isInitialized

\* the positions, in input order, of the files whose upload and insert both
\* succeeded
Saved == SelectSeq([ i \in 1..Len(outcomes) |-> i ], LAMBDA i : outcomes[i] = "saved")

\* C30: saveImageRecords handles the files in input order and goes on after
\* a failure: it never raises, and when it returns every file has been
\* handled and the list it returns holds, in input order, one record for
\* each file whose upload and insert both succeeded and no other record;
\* for no files it returns the empty list.
C30_SavesWhatSucceeded ==
  /\ save.pc \in { "idle", "upload", "insert", "returned" }
  /\ save.pc = "returned" =>
       /\ Len(outcomes) = Len(files.list)
       /\ Len(save.imageRecords) = Len(Saved)
       /\ \A k \in 1..Len(Saved) :
            LET file == files.list[Saved[k]]
                record == save.imageRecords[k]
            IN /\ record.original_name = file.originalname
               /\ record.mimetype = file.mimetype
               /\ record.size = file.size
               /\ record.filename \in bucket
               /\ record \in images
               /\ \A j \in 1..(k - 1) : save.imageRecords[j].id < record.id
       /\ (~ files.given \/ files.list = << >>) => save.imageRecords = << >>

\* of three files the second failed, at its insert, and the records of the
\* first and the third were returned in that order
C30_Witness ==
  /\ save.pc = "returned"
  /\ Len(files.list) = 3
  /\ outcomes = << "saved", "insert failed", "saved" >>
  /\ Len(save.imageRecords) = 2
  /\ save.imageRecords[1].original_name = files.list[1].originalname
  /\ save.imageRecords[2].original_name = files.list[3].originalname
  /\ files.list[1] # files.list[3]

====
